---- MODULE Spec2Model ----
(***************************************************************************)
(* SolarView Analytics: the report generator (ReportsGenerator.tsx), the   *)
(* data export (DataExport, in MetricCard.tsx) and the page switch of      *)
(* App.tsx, as one state machine; the cost calculator, the settings page,  *)
(* the data import, the dashboard's refresh and the inverter management,   *)
(* each as a state machine of its own.                                     *)
(*                                                                         *)
(* A JavaScript string is modelled as a sequence of tokens: a token is     *)
(* either one special character ("," , "\n", "\"") or a run of ordinary    *)
(* characters.  An optional field (downloadUrl?: string) is the empty      *)
(* sequence when absent and a one-element sequence when present.           *)
(***************************************************************************)
EXTENDS Integers, Sequences, FiniteSets, Bags, TLC

VARIABLES
  currentPage,    \* App.tsx: useState('dashboard')
  alertMsg,       \* the open window.alert() dialog, "" when none is open
  jobs,           \* jobs started by the mounted component so far
  requestOutcome, \* what the last click on a start button did
  reportConfig,   \* ReportsGenerator: config
  reportStatus,   \* ReportsGenerator: reportStatus
  reportData,     \* ReportsGenerator: reportData (<<>> is null)
  recentReports,  \* ReportsGenerator: recentReports
  reportRuns,     \* handleGenerateReport invocations suspended at an await
  edits,          \* edits of the export configuration since it was mounted
  exportConfig,   \* DataExport: config
  exportStatus,   \* DataExport: exportStatus
  exportRuns,     \* handleStartExport invocations suspended at an await
  exportBlob,     \* the Blob the export status's downloadUrl names (<<>>: none)
  objectUrls,     \* the browser's object URLs: created and not yet revoked
  mockConfig,     \* serializers: the config generateMockData reads
  mockRandom,     \* serializers: what Math.random() returns, record by record
  exportData,     \* serializers: the records handed to convertToCSV
  fileContent,    \* serializers: the text written (<<>>: not yet written)
  reportInput,    \* report data: the month, the year and what Math.random() returns
  aggregate,      \* report data: what generateMockReportData returns (<<>>: not yet)
  costSettings,   \* savings: the owner's price per kWh and tax rate
  mockProduction, \* savings: the production the savings are derived from
  savings,        \* savings: the figure derived and who derived it (<<>>: not yet)
  storedPrice,    \* the users record's electricityPrice in the database (<<>>: none)
  costRuns,       \* CostCalculator: invocations suspended at an await
  costCalls,      \* CostCalculator: invocations started so far
  costSaving,     \* CostCalculator: saving
  costAlert,      \* CostCalculator: the open window.alert() dialog, "" when none
  costEvent,      \* CostCalculator: the load the last step finished, if any
  enteredPrice,   \* CostCalculator: the price typed and not yet saved (<<>>: none)
  saveStatus,     \* Settings: saveStatus
  settingsSaving, \* Settings: saving
  saveRuns,       \* Settings: handleSaveSettings invocations suspended at an await
  saveTimers,     \* Settings: the pending timers, by the save that set them
  saveAttempts,   \* Settings: saves started so far
  statusAttempt,  \* Settings: the save whose result saveStatus shows (0: none)
  lastClear,      \* Settings: the last message a timer cleared (<<>>: none)
  importConfig,   \* DataImport: config
  importStatus,   \* DataImport: importStatus
  testConnection, \* DataImport: testConnection
  testRuns,       \* DataImport: handleTestConnection invocations waiting for their timer
  importRun,      \* DataImport: the handleStartImport invocation suspended at an await (<<>>: none)
  importEdits,    \* DataImport: edits of the configuration so far
  imports,        \* DataImport: imports started so far
  importOutcome,  \* DataImport: what the last click on Start Import did
  testedConfig,   \* DataImport: the configuration the last successful test checked (<<>>: none)
  importNow,      \* the time in seconds since the import page was opened
  powerData,      \* the powerData table: inverter and timestamp of its rows, in storage order
  dbInverters,    \* the ids of the rows of the inverters table
  dashInverters,  \* Dashboard: inverters, the status shown by id
  dashRuns,       \* Dashboard: loadDashboardData invocations suspended at an await
  dashPolls,      \* Dashboard: loadDashboardData invocations started so far
  failedPolls,    \* Dashboard: by id, the polls in a row that found the inverter offline
  inverters,      \* InverterManagement: inverters, newest first
  inverterRuns,   \* InverterManagement: invocations suspended at an await
  inverterSaving, \* InverterManagement: saving
  inverterAlert,  \* InverterManagement: the open window.alert() dialog, "" when none
  inverterClicks, \* InverterManagement: menu and button clicks so far
  nextInverterId, \* the id the inverters table gives the next row
  deletedInverters, \* the ids whose blink.db.inverters.delete has succeeded
  inverterEvent   \* InverterManagement: what the last step did

vars == <<currentPage, alertMsg, jobs, requestOutcome, reportConfig, reportStatus,
          reportData, recentReports, reportRuns, edits, exportConfig,
          exportStatus, exportRuns, exportBlob, objectUrls,
          mockConfig, mockRandom, exportData, fileContent,
          reportInput, aggregate, costSettings, mockProduction, savings,
          storedPrice, costRuns, costCalls, costSaving, costAlert, costEvent,
          enteredPrice,
          saveStatus, settingsSaving, saveRuns, saveTimers, saveAttempts, statusAttempt, lastClear,
          importConfig, importStatus, testConnection, testRuns, importRun, importEdits, imports, importOutcome, testedConfig, importNow, powerData,
          dbInverters, dashInverters, dashRuns, dashPolls, failedPolls,
          inverters, inverterRuns, inverterSaving, inverterAlert, inverterClicks, nextInverterId, deletedInverters, inverterEvent>>

reportVars == <<reportConfig, reportStatus, reportData, recentReports, reportRuns>>

exportVars == <<edits, exportConfig, exportStatus, exportRuns, exportBlob, objectUrls>>

appVars == <<currentPage, alertMsg, jobs, requestOutcome, reportVars, exportVars>>

calcVars == <<reportInput, aggregate, costSettings, mockProduction, savings>>

serializerVars == <<mockConfig, mockRandom, exportData, fileContent, calcVars>>

costVars == <<storedPrice, costRuns, costCalls, costSaving, costAlert, costEvent,
              enteredPrice>>

settingsVars == <<saveStatus, settingsSaving, saveRuns, saveTimers, saveAttempts, statusAttempt, lastClear>>

importVars == <<importConfig, importStatus, testConnection, testRuns, importRun, importEdits, imports, importOutcome, testedConfig, importNow, powerData>>

dashVars == <<dbInverters, dashInverters, dashRuns, dashPolls, failedPolls>>

inverterVars == <<inverters, inverterRuns, inverterSaving, inverterAlert, inverterClicks, nextInverterId, deletedInverters, inverterEvent>>

\* The state of the pages other than the reports and the export.
pageVars == <<costVars, settingsVars, importVars, dashVars, inverterVars>>

\* ---------------------------------------------------------------- bounds

MaxReports == 5

MaxExports == 3

MaxEdits == 3

MaxUrls == 2

MaxRows == 2

MaxDays == 2

\* ------------------------------------------------------------- constants

None == <<>>

Some(x) == <<x>>

Range(s) == {s[i] : i \in DOMAIN s}

Max(S) == CHOOSE x \in S : \A y \in S : y <= x

Pages == {"dashboard", "reports", "export"}

ModelMonths == {1, 3}

ModelYears == {2024}

\* ------------------------------------------------------ ReportsGenerator

ReportInitialStatus == [status |-> "idle", progress |-> 0, message |-> "",
                        downloadUrl |-> None]

InitialRecentReports ==
  << [id |-> 1, name |-> <<11, 2024>>, date |-> 2, size |-> "2.3 MB", status |-> "completed"],
     [id |-> 2, name |-> <<10, 2024>>, date |-> 1, size |-> "2.1 MB", status |-> "completed"] >>

\* The steps with two of them exchanged.
ReportStepsUnordered ==
  << [progress |-> 20,  message |-> "Collecting production data..."],
     [progress |-> 60,  message |-> "Generating charts..."],
     [progress |-> 40,  message |-> "Calculating statistics..."],
     [progress |-> 80,  message |-> "Creating PDF document..."],
     [progress |-> 100, message |-> "Report generated successfully!"] >>

ReportSteps ==
  << [progress |-> 20,  message |-> "Collecting production data..."],
     [progress |-> 40,  message |-> "Calculating statistics..."],
     [progress |-> 60,  message |-> "Generating charts..."],
     [progress |-> 80,  message |-> "Creating PDF document..."],
     [progress |-> 100, message |-> "Report generated successfully!"] >>

\* The data object one call of generateMockReportData returns: a fresh object
\* (id) for the period of the configuration the call reads.
generateMockReportData(cfg, id) ==
  [id |-> id, period |-> <<cfg.month, cfg.year>>]

\* A button that is never disabled.
GenerateNeverDisabled(status) == FALSE

\* The Generate Report button's disabled attribute.
GenerateDisabled(status) == status.status = "generating"

\* The month, year and option controls' disabled attribute.
ReportConfigDisabled(status) == status.status = "generating"

\* "Generate New" is rendered for a completed report with data, "Try Again"
\* for a failed one.
ResetGeneratorVisible(status, data) ==
  \/ status.status = "completed" /\ data # None
  \/ status.status = "error"

\* setReportStatus(prev => ({...prev, progress, message}))
ApplyStep(prev, step) ==
  [prev EXCEPT !.progress = step.progress, !.message = step.message]

\* [newRecord, ...prev.slice(0, 4)]
SliceFront(s, n) == SubSeq(s, 1, IF Len(s) < n THEN Len(s) ELSE n)

RecentReportsKept == 4

\* The list cut one record too late.
AddRecentReportKeepingFive(prev, rec) == <<rec>> \o SliceFront(prev, RecentReportsKept + 1)

AddRecentReport(prev, rec) == <<rec>> \o SliceFront(prev, RecentReportsKept)

\* Date.now() and new Date() when a report completes.  The clock only grows;
\* the model keeps of it what the state can compare: a time later than every
\* time the list of reports holds.
ReportNow == 1 + Max({recentReports[i].date : i \in DOMAIN recentReports} \cup {0})

\* handleGenerateReport up to its first await.
StartReport ==
  /\ reportStatus' = [status |-> "generating", progress |-> 0,
                      message |-> "Preparing report data...", downloadUrl |-> None]
  /\ LET data == generateMockReportData(reportConfig, jobs + 1)
     IN /\ reportData' = Some(data)
        /\ reportRuns' = reportRuns \cup {[id |-> jobs + 1, pc |-> 0, data |-> data]}
  /\ jobs' = jobs + 1
  /\ requestOutcome' = "started"
  /\ UNCHANGED <<currentPage, alertMsg, reportConfig, recentReports, exportVars>>

\* A click on the Generate Report button: a disabled button dispatches nothing.
ClickGenerateReport ==
  /\ currentPage = "reports"
  /\ alertMsg = ""
  /\ jobs < MaxReports
  /\ IF GenerateDisabled(reportStatus)
     THEN /\ requestOutcome' = "ignored"
          /\ UNCHANGED <<currentPage, alertMsg, jobs, reportVars, exportVars>>
     ELSE StartReport

\* What handleGenerateReport does after its last step: the completed status
\* and the new record of recentReports.
CompleteReport(r) ==
  /\ reportStatus' = [status |-> "completed", progress |-> 100,
                      message |-> "Report ready for download!",
                      downloadUrl |-> Some(ReportNow)]
  /\ recentReports' = AddRecentReport(recentReports,
                        [id |-> ReportNow, name |-> r.data.period, date |-> ReportNow,
                         size |-> "2.4 MB", status |-> "completed"])

\* One timer of the steps loop fires and handleGenerateReport runs to its next
\* await, or, after the fifth step, to its end.
ReportResume ==
  /\ currentPage = "reports"
  /\ alertMsg = ""
  /\ \E r \in reportRuns :
       LET step == ReportSteps[r.pc + 1]
       IN IF r.pc + 1 < Len(ReportSteps)
          THEN /\ reportStatus' = ApplyStep(reportStatus, step)
               /\ reportRuns' = (reportRuns \ {r}) \cup {[r EXCEPT !.pc = r.pc + 1]}
               /\ UNCHANGED recentReports
          ELSE /\ CompleteReport(r)
               /\ reportRuns' = reportRuns \ {r}
  /\ UNCHANGED <<currentPage, alertMsg, jobs, requestOutcome, reportConfig, reportData,
                 exportVars>>

\* A statement of the try block throws after an await: the catch block.
ReportFail ==
  /\ currentPage = "reports"
  /\ alertMsg = ""
  /\ \E r \in reportRuns : reportRuns' = reportRuns \ {r}
  /\ reportStatus' = [status |-> "error", progress |-> 0,
                      message |-> "Failed to generate report. Please try again.",
                      downloadUrl |-> None]
  /\ UNCHANGED <<currentPage, alertMsg, jobs, requestOutcome, reportConfig, reportData,
                 recentReports, exportVars>>

\* A reset that spreads the previous status under the new fields.
resetGeneratorKeepingUrl ==
  /\ currentPage = "reports"
  /\ alertMsg = ""
  /\ ResetGeneratorVisible(reportStatus, reportData)
  /\ reportStatus' = [reportStatus EXCEPT !.status = "idle", !.progress = 0,
                                          !.message = ""]
  /\ reportData' = None
  /\ UNCHANGED <<currentPage, alertMsg, jobs, requestOutcome, reportConfig,
                 recentReports, reportRuns, exportVars>>

resetGenerator ==
  /\ currentPage = "reports"
  /\ alertMsg = ""
  /\ ResetGeneratorVisible(reportStatus, reportData)
  /\ reportStatus' = ReportInitialStatus
  /\ reportData' = None
  /\ UNCHANGED <<currentPage, alertMsg, jobs, requestOutcome, reportConfig,
                 recentReports, reportRuns, exportVars>>

\* The Download PDF button is rendered for a completed report with data.
handleDownloadReport ==
  /\ currentPage = "reports"
  /\ alertMsg = ""
  /\ reportStatus.status = "completed" /\ reportData # None
  /\ alertMsg' = IF reportStatus.downloadUrl # None
                 THEN "PDF download would start here. This is a demo implementation."
                 ELSE alertMsg
  /\ UNCHANGED <<currentPage, jobs, requestOutcome, reportVars, exportVars>>

SetReportPeriod ==
  /\ currentPage = "reports"
  /\ alertMsg = ""
  /\ ~ReportConfigDisabled(reportStatus)
  /\ \E m \in ModelMonths, y \in ModelYears :
       reportConfig' = [reportConfig EXCEPT !.month = m, !.year = y]
  /\ UNCHANGED <<currentPage, alertMsg, jobs, requestOutcome, reportStatus,
                 reportData, recentReports, reportRuns, exportVars>>

\* ------------------------------------------------------------ DataExport

FieldNames == <<"timestamp", "acPower", "acVoltage", "acCurrent", "dcChannels",
                "temperature", "yield">>

Formats == {"csv", "excel", "json"}

AvailableInverters == <<"1", "2", "3">>

DcChannelCount == 4

FirstHour == 6

LastHour == 20

DefaultRangeDays == 30

\* The groups of field checkboxes, the inverter checkboxes and the date ranges
\* the user of the model clicks.
ModelFieldClicks == { Range(FieldNames), {"timestamp", "acPower"}, {"dcChannels"} }

ModelInverterClicks == {"1", "2"}

ModelRanges == { [from |-> 28, to |-> Some(30)], [from |-> 29, to |-> None],
                 [from |-> 30, to |-> Some(30)] }

ExportInitialConfig ==
  [format |-> "csv",
   dateRange |-> [from |-> 0, to |-> Some(DefaultRangeDays)],
   includeFields |-> [f \in Range(FieldNames) |-> TRUE],
   inverterIds |-> <<>>]

ExportInitialStatus == [status |-> "idle", progress |-> 0, message |-> <<>>,
                        downloadUrl |-> None, fileName |-> None]

ExportSteps ==
  << [progress |-> 20,  message |-> <<"Querying database...">>],
     [progress |-> 40,  message |-> <<"Processing data...">>],
     [progress |-> 60,  message |-> <<"Formatting export...">>],
     [progress |-> 80,  message |-> <<"Generating file...">>],
     [progress |-> 100, message |-> <<"Export completed!">>] >>

\* A cell value: a string (a sequence of tokens) or a number.
StringValue(tokens) == [type |-> "string", v |-> tokens]

NumberValue(n) == [type |-> "number", v |-> n]

\* Date.prototype.toISOString of the sample taken at `hour` hours after the
\* start of day `day`.
ToISOString(day, hour) == <<"D" \o ToString(day) \o "T" \o ToString(hour)>>

\* format(date, 'yyyy-MM-dd') of date-fns.
FormatDate(day) == "D" \o ToString(day)

\* handleFieldChange
handleFieldChange(cfg, field, checked) ==
  [cfg EXCEPT !.includeFields[field] = checked]

\* handleInverterToggle
handleInverterToggle(cfg, inverterId, checked) ==
  [cfg EXCEPT !.inverterIds =
     IF checked THEN Append(cfg.inverterIds, inverterId)
     ELSE LET Other(id) == id # inverterId IN SelectSeq(cfg.inverterIds, Other)]

\* handleSelectAllInverters
handleSelectAllInverters(cfg, checked) ==
  [cfg EXCEPT !.inverterIds = IF checked THEN AvailableInverters ELSE <<>>]

\* The three dc_* columns of channel i.
DcColumns(i, rnd) ==
  << <<"dc_power_" \o ToString(i), NumberValue(((rnd * 400) \div 1000) + 100)>>,
     <<"dc_voltage_" \o ToString(i), NumberValue(35000 + rnd * 5)>>,
     <<"dc_current_" \o ToString(i), NumberValue(rnd * 10 + 2000)>> >>

RECURSIVE DcChannels(_, _)
DcChannels(i, rnd) ==
  IF i > DcChannelCount THEN <<>> ELSE DcColumns(i, rnd) \o DcChannels(i + 1, rnd)

\* One record of generateMockData: the keys in insertion order, each with its
\* value.  rnd is what Math.random() returns, in thousandths; a value that is
\* not a whole number is given in thousandths too.
MockRecord(cfg, day, hour, rnd) ==
  LET inc == cfg.includeFields
  IN (IF inc["timestamp"]
      THEN << <<"timestamp", StringValue(ToISOString(cfg.dateRange.from + day, hour))>> >>
      ELSE <<>>)
     \o (IF inc["acPower"]
         THEN << <<"ac_power", NumberValue(((rnd * 1500) \div 1000) + 200)>> >>
         ELSE <<>>)
     \o (IF inc["acVoltage"]
         THEN << <<"ac_voltage", NumberValue(230000 + rnd * 10)>> >> ELSE <<>>)
     \o (IF inc["acCurrent"]
         THEN << <<"ac_current", NumberValue(rnd * 6 + 1000)>> >> ELSE <<>>)
     \o (IF inc["dcChannels"] THEN DcChannels(1, rnd) ELSE <<>>)
     \o (IF inc["temperature"]
         THEN << <<"temperature", NumberValue(45000 + rnd * 15)>> >> ELSE <<>>)
     \o (IF inc["yield"]
         THEN << <<"yield_today", NumberValue(rnd * 15 + 5000)>>,
                 <<"yield_total", NumberValue(rnd * 5000 + 2000000)>> >>
         ELSE <<>>)

\* Math.ceil((endDate.getTime() - startDate.getTime()) / one day), the dates
\* being whole days.
DaysDiff(range) == range.to[1] - range.from

\* generateMockData: one record per hour FirstHour..LastHour-1 of each day.
\* rnd[k] is what Math.random() returns for the k-th record.
HoursPerDay == LastHour - FirstHour

RecordCount(cfg) ==
  IF DaysDiff(cfg.dateRange) > 0 THEN DaysDiff(cfg.dateRange) * HoursPerDay ELSE 0

\* The records pushed to the front of the array: the newest first.
generateMockDataNewestFirst(cfg, rnd) ==
  LET n == RecordCount(cfg)
  IN [k \in 1..n |->
        MockRecord(cfg, (n - k) \div HoursPerDay, FirstHour + ((n - k) % HoursPerDay),
                   rnd[((n - k) % Len(rnd)) + 1])]

generateMockData(cfg, rnd) ==
  LET n == RecordCount(cfg)
  IN [k \in 1..n |->
        MockRecord(cfg, (k - 1) \div HoursPerDay, FirstHour + ((k - 1) % HoursPerDay),
                   rnd[((k - 1) % Len(rnd)) + 1])]

\* endDate.getTime() throws a TypeError when the range has no end date.
GenerateMockDataThrows(cfg) == cfg.dateRange.to = None

\* Object.keys(record)
Keys(record) == [i \in DOMAIN record |-> record[i][1]]

\* row[header]: the value under the key, undefined (the empty string once
\* joined) when the record has no such key.
Lookup(record, key) ==
  IF \E i \in DOMAIN record : record[i][1] = key
  THEN record[CHOOSE i \in DOMAIN record : record[i][1] = key][2]
  ELSE StringValue(<<>>)

\* Array.prototype.join
RECURSIVE Join(_, _)
Join(parts, sep) ==
  IF Len(parts) = 0 THEN <<>>
  ELSE IF Len(parts) = 1 THEN parts[1]
  ELSE parts[1] \o <<sep>> \o Join(Tail(parts), sep)

\* value.includes(',')
Includes(tokens, ch) == \E i \in DOMAIN tokens : tokens[i] = ch

\* The text convertToCSV writes for one value: a string with a comma is put
\* in quotes, anything else is written as it is.
CellText(value) ==
  IF value.type = "string"
  THEN IF Includes(value.v, ",") THEN <<"\"">> \o value.v \o <<"\"">> ELSE value.v
  ELSE <<ToString(value.v)>>

\* The rows without the line of headers.
convertToCSVWithoutHeader(data) ==
  IF Len(data) = 0 THEN <<>>
  ELSE LET headers == Keys(data[1])
           RowLine(row) ==
             Join([i \in DOMAIN headers |-> CellText(Lookup(row, headers[i]))], ",")
       IN Join([k \in DOMAIN data |-> RowLine(data[k])], "\n")

\* convertToCSV
convertToCSV(data) ==
  IF Len(data) = 0 THEN <<>>
  ELSE LET headers == Keys(data[1])
           HeaderLine == Join([i \in DOMAIN headers |-> <<headers[i]>>], ",")
           RowLine(row) ==
             Join([i \in DOMAIN headers |-> CellText(Lookup(row, headers[i]))], ",")
       IN Join(<<HeaderLine>> \o [k \in DOMAIN data |-> RowLine(data[k])], "\n")

\* The file extension and the media type of handleStartExport's switch.
FileExtension(format) ==
  CASE format = "csv" -> ".csv" [] format = "excel" -> ".xlsx" [] format = "json" -> ".json"

\* The media type of the csv case in every case.
MimeTypeOfCsv(format) == "text/csv"

MimeType(format) ==
  CASE format = "csv" -> "text/csv"
    [] format = "excel" -> "application/vnd.openxmlformats-officedocument.spreadsheetml.sheet"
    [] format = "json" -> "application/json"

ExportFileName(cfg) ==
  "solar_data_" \o FormatDate(cfg.dateRange.from) \o "_to_"
    \o FormatDate(cfg.dateRange.to[1]) \o FileExtension(cfg.format)

\* Object.entries(config.includeFields).filter(([_, selected]) => selected)
SelectedFields(cfg) ==
  LET Sel(f) == cfg.includeFields[f] IN SelectSeq(FieldNames, Sel)

\* The Start Export button's disabled attribute.
StartExportDisabled(status) == status.status = "exporting"

\* "New Export" is rendered for a completed export, "Try Again" for a failed one.
ResetExportVisible(status) == status.status \in {"completed", "error"}

\* handleStartExport without the validation of the field selection.
handleStartExportAnyFields ==
  IF Len(exportConfig.inverterIds) = 0
  THEN /\ alertMsg' = "Please select at least one inverter to export data from."
       /\ requestOutcome' = "rejected"
       /\ UNCHANGED <<currentPage, jobs, reportVars, exportVars>>
  ELSE /\ exportStatus' = [status |-> "exporting", progress |-> 0,
                           message |-> <<"Preparing export...">>,
                           downloadUrl |-> None, fileName |-> None]
       /\ exportRuns' = exportRuns \cup {[id |-> jobs + 1, pc |-> 0, cfg |-> exportConfig]}
       /\ jobs' = jobs + 1
       /\ requestOutcome' = "started"
       /\ exportBlob' = None
       /\ UNCHANGED <<currentPage, alertMsg, reportVars, edits, exportConfig,
                      objectUrls>>

\* handleStartExport up to its first await: the two validations, then the
\* exporting status.  The invocation keeps the config of the render it was
\* created in.
handleStartExport ==
  IF Len(exportConfig.inverterIds) = 0
  THEN /\ alertMsg' = "Please select at least one inverter to export data from."
       /\ requestOutcome' = "rejected"
       /\ UNCHANGED <<currentPage, jobs, reportVars, exportVars>>
  ELSE IF Len(SelectedFields(exportConfig)) = 0
  THEN /\ alertMsg' = "Please select at least one field to export."
       /\ requestOutcome' = "rejected"
       /\ UNCHANGED <<currentPage, jobs, reportVars, exportVars>>
  ELSE /\ exportStatus' = [status |-> "exporting", progress |-> 0,
                           message |-> <<"Preparing export...">>,
                           downloadUrl |-> None, fileName |-> None]
       /\ exportRuns' = exportRuns \cup {[id |-> jobs + 1, pc |-> 0, cfg |-> exportConfig]}
       /\ jobs' = jobs + 1
       /\ requestOutcome' = "started"
       /\ exportBlob' = None
       /\ UNCHANGED <<currentPage, alertMsg, reportVars, edits, exportConfig,
                      objectUrls>>

\* A click on the Start Export button: a disabled button dispatches nothing.
ClickStartExport ==
  /\ currentPage = "export"
  /\ alertMsg = ""
  /\ jobs < MaxExports
  /\ Cardinality(objectUrls) < MaxUrls
  /\ IF StartExportDisabled(exportStatus)
     THEN /\ requestOutcome' = "ignored"
          /\ UNCHANGED <<currentPage, alertMsg, jobs, reportVars, exportVars>>
     ELSE handleStartExport

\* URL.createObjectURL: a URL no live object URL equals.
CreateObjectURL(urls) == 1 + Max(urls \cup {0})

\* URL.revokeObjectURL
RevokeObjectURL(urls, url) == urls \ {url}

\* FinishExport reading the configuration on screen when the export ends
\* instead of the one the invocation was created with.
FinishExportOfCurrentConfig(r) ==
  IF GenerateMockDataThrows(exportConfig)
  THEN /\ exportStatus' = [status |-> "error", progress |-> 0,
                           message |-> <<"Export failed. Please try again.">>,
                           downloadUrl |-> None, fileName |-> None]
       /\ UNCHANGED <<exportBlob, objectUrls>>
  ELSE LET n == RecordCount(exportConfig)
           first == MockRecord(exportConfig, 0, FirstHour, 0)
           downloadUrl == CreateObjectURL(objectUrls)
       IN /\ exportStatus' = [status |-> "completed", progress |-> 100,
                              message |-> <<"Export completed! ", ToString(n),
                                            " records exported.">>,
                              downloadUrl |-> Some(downloadUrl),
                              fileName |-> Some(ExportFileName(exportConfig))]
          /\ exportBlob' = Some([type |-> MimeType(exportConfig.format),
                                 columns |-> IF n = 0 THEN <<>> ELSE Keys(first),
                                 records |-> n])
          /\ objectUrls' = objectUrls \cup {downloadUrl}

\* What handleStartExport does after its last step: the data, the file, its
\* object URL and the completed status; the catch block when that throws.
\* Of the Blob the model keeps the media type, the columns and the number of
\* records, none of which depends on Math.random().
FinishExport(r) ==
  IF GenerateMockDataThrows(r.cfg)
  THEN /\ exportStatus' = [status |-> "error", progress |-> 0,
                           message |-> <<"Export failed. Please try again.">>,
                           downloadUrl |-> None, fileName |-> None]
       /\ UNCHANGED <<exportBlob, objectUrls>>
  ELSE LET n == RecordCount(r.cfg)
           first == MockRecord(r.cfg, 0, FirstHour, 0)
           downloadUrl == CreateObjectURL(objectUrls)
       IN /\ exportStatus' = [status |-> "completed", progress |-> 100,
                              message |-> <<"Export completed! ", ToString(n),
                                            " records exported.">>,
                              downloadUrl |-> Some(downloadUrl),
                              fileName |-> Some(ExportFileName(r.cfg))]
          /\ exportBlob' = Some([type |-> MimeType(r.cfg.format),
                                 columns |-> IF n = 0 THEN <<>> ELSE Keys(first),
                                 records |-> n])
          /\ objectUrls' = objectUrls \cup {downloadUrl}

\* One timer of the steps loop fires and handleStartExport runs to its next
\* await, or, after the fifth step, to its end.
ExportResume ==
  /\ currentPage = "export"
  /\ alertMsg = ""
  /\ \E r \in exportRuns :
       IF r.pc + 1 < Len(ExportSteps)
       THEN /\ exportStatus' = ApplyStep(exportStatus, ExportSteps[r.pc + 1])
            /\ exportRuns' = (exportRuns \ {r}) \cup {[r EXCEPT !.pc = r.pc + 1]}
            /\ UNCHANGED <<exportBlob, objectUrls>>
       ELSE /\ FinishExport(r)
            /\ exportRuns' = exportRuns \ {r}
  /\ UNCHANGED <<currentPage, alertMsg, jobs, requestOutcome, reportVars, edits,
                 exportConfig>>

\* handleDownload: the Download File button is rendered for a completed export.
\* The link it clicks makes the browser save the file; the page's state stays.
handleDownload ==
  /\ currentPage = "export"
  /\ alertMsg = ""
  /\ exportStatus.status = "completed"
  /\ UNCHANGED vars

resetExport ==
  /\ currentPage = "export"
  /\ alertMsg = ""
  /\ ResetExportVisible(exportStatus)
  /\ objectUrls' = IF exportStatus.downloadUrl # None
                   THEN RevokeObjectURL(objectUrls, exportStatus.downloadUrl[1])
                   ELSE objectUrls
  /\ exportStatus' = ExportInitialStatus
  /\ exportBlob' = None
  /\ UNCHANGED <<currentPage, alertMsg, jobs, requestOutcome, reportVars, edits,
                 exportConfig, exportRuns>>

\* The user clicks the checkboxes of one group of fields, one after the other:
\* each click calls handleFieldChange with the opposite of what the box shows.
RECURSIVE ClickFields(_, _)
ClickFields(cfg, fields) ==
  IF fields = {} THEN cfg
  ELSE LET f == CHOOSE x \in fields : TRUE
       IN ClickFields(handleFieldChange(cfg, f, ~cfg.includeFields[f]), fields \ {f})

EditExportConfig(cfg) ==
  /\ currentPage = "export"
  /\ alertMsg = ""
  /\ edits < MaxEdits
  /\ edits' = edits + 1
  /\ exportConfig' = cfg
  /\ UNCHANGED <<currentPage, alertMsg, jobs, requestOutcome, reportVars,
                 exportStatus, exportRuns, exportBlob, objectUrls>>

ToggleFields ==
  \E g \in ModelFieldClicks : EditExportConfig(ClickFields(exportConfig, g))

ToggleInverter ==
  \E id \in ModelInverterClicks :
    EditExportConfig(handleInverterToggle(exportConfig, id,
                       ~(id \in Range(exportConfig.inverterIds))))

SelectAllInverters ==
  EditExportConfig(handleSelectAllInverters(exportConfig,
     ~(Len(exportConfig.inverterIds) = Len(AvailableInverters))))

SelectFormat ==
  \E f \in Formats \ {exportConfig.format} :
    EditExportConfig([exportConfig EXCEPT !.format = f])

\* The calendar's onSelect: a range, or undefined, which keeps the range.
SelectDateRange ==
  \E range \in ModelRanges \ {exportConfig.dateRange} :
    EditExportConfig([exportConfig EXCEPT !.dateRange = range])

\* The buttons each component renders enabled, by the status it shows.
ReportControls(status, rdata) ==
  (IF GenerateDisabled(status) THEN {} ELSE {"generate"})
    \cup (IF status.status = "completed" /\ rdata # None THEN {"download"} ELSE {})
    \cup (IF ResetGeneratorVisible(status, rdata) THEN {"reset"} ELSE {})

ExportControls(status) ==
  (IF StartExportDisabled(status) THEN {} ELSE {"start"})
    \cup (IF status.status = "completed" THEN {"download"} ELSE {})
    \cup (IF ResetExportVisible(status) THEN {"reset"} ELSE {})

\* ------------------------------------------- generateMockReportData

\* An energy is given in thousandths of a kWh, a power in thousandths of a
\* W, where the code computes with fractions; a figure the code cuts to two
\* decimals (Math.floor(x * 100) / 100) is given in hundredths.

\* new Date(year, monthIndex + 1, 0).getDate()
DaysInMonth(year, monthIndex) ==
  CASE monthIndex \in {0, 2, 4, 6, 7, 9, 11} -> 31
    [] monthIndex \in {3, 5, 8, 10} -> 30
    [] OTHER -> IF (year % 4 = 0 /\ year % 100 # 0) \/ year % 400 = 0
                THEN 29 ELSE 28

\* What the two calls of Math.random() give for the day: the production
\* (Math.random() * 40 + 10) and the power (Math.random() * 1500 + 500).
DayDraw(random, day) == random[((day - 1) % Len(random)) + 1]

\* Math.floor(x * 100) / 100, from thousandths to hundredths.
Floor2(x) == x \div 10

PricePerKwh == 250

\* production * 0.25, in thousandths of a dollar.
SavingsOf(production) == (production * PricePerKwh) \div 1000

\* The entry of dailyData for the day.
DailyEntry(year, monthIndex, day, draw) ==
  [date |-> <<year, monthIndex + 1, day>>,
   production |-> Floor2(draw.production),
   savings |-> Floor2(SavingsOf(draw.production))]

\* The total of the figures cut to two decimals.
RECURSIVE TotalProductionOfRounded(_, _)
TotalProductionOfRounded(random, n) ==
  IF n = 0 THEN 0
  ELSE TotalProductionOfRounded(random, n - 1) + Floor2(DayDraw(random, n).production) * 10

\* totalProduction and maxPower after the loop over the first n days.
RECURSIVE TotalProduction(_, _)
TotalProduction(random, n) ==
  IF n = 0 THEN 0 ELSE TotalProduction(random, n - 1) + DayDraw(random, n).production

RECURSIVE MaxPower(_, _)
MaxPower(random, n) ==
  IF n = 0 THEN 0
  ELSE LET before == MaxPower(random, n - 1)
           power == DayDraw(random, n).power
       IN IF power > before THEN power ELSE before

\* A reduce that takes the later day when two days are equal.
RECURSIVE BestDayLastWins(_, _)
BestDayLastWins(dailyData, n) ==
  IF n = 1 THEN dailyData[1]
  ELSE LET max == BestDayLastWins(dailyData, n - 1)
       IN IF dailyData[n].production >= max.production THEN dailyData[n] ELSE max

\* dailyData.reduce((max, day) => day.production > max.production ? day : max)
\* over the first n entries; the reduce of an empty array throws.
RECURSIVE BestDay(_, _)
BestDay(dailyData, n) ==
  IF n = 1 THEN dailyData[1]
  ELSE LET max == BestDay(dailyData, n - 1)
       IN IF dailyData[n].production > max.production THEN dailyData[n] ELSE max

\* The uptime the code assumes, in percent.
AssumedUptime == 95

\* The ReportData generateMockReportData returns for the month and the year
\* of the configuration.
ReportDataOf(monthIndex, year, random) ==
  LET daysInMonth == DaysInMonth(year, monthIndex)
      dailyData == [day \in 1..daysInMonth |->
                      DailyEntry(year, monthIndex, day, DayDraw(random, day))]
      totalProduction == TotalProduction(random, daysInMonth)
      bestDay == BestDay(dailyData, daysInMonth)
  IN [period |-> <<monthIndex, year>>,
      totalProduction |-> Floor2(totalProduction),
      maxPower |-> MaxPower(random, daysInMonth) \div 1000,
      totalSavings |-> Floor2(SavingsOf(totalProduction)),
      dailyData |-> dailyData,
      summary |-> [averageDailyProduction |-> Floor2(totalProduction \div daysInMonth),
                   bestDay |-> [date |-> bestDay.date, production |-> bestDay.production],
                   totalDays |-> daysInMonth,
                   onlineDays |-> (daysInMonth * AssumedUptime) \div 100]]

\* The uptime the Report Preview shows, in percent.
UptimePercent(data) == (data.summary.onlineDays * 100) \div data.summary.totalDays

\* ------------------------------------------------------------ savings

\* CostCalculator: settings (useState).  A price is given in thousandths of a
\* dollar per kWh, the tax rate in percent.
CostInitialSettings == [electricityPrice |-> PricePerKwh, currency |-> "USD", taxRate |-> 0]

\* calculateSavings: mockProductionData.today * settings.electricityPrice, in
\* millionths of a dollar.
calculateSavings(settings, production) == production * settings.electricityPrice

\* generateMockReportData: the savings of a day, cut to two decimals, in
\* millionths of a dollar.
ReportSavings(production) == Floor2(SavingsOf(production)) * 10000

\* Dashboard generateMockData: yieldToday * electricityPrice with the price set
\* to 0.25, in millionths of a dollar.
DashboardSavings(yieldToday) == yieldToday * PricePerKwh

\* ------------------------------------------------------- CostCalculator

MaxCostCalls == 7

\* What the user types into the price field: a number, or a text that
\* parseFloat reads as NaN (<<>>).
ModelPriceInputs == {None, Some(-100), Some(0), Some(300)}

\* parseFloat(e.target.value) || 0
ParsePrice(input) == IF input = None THEN 0 ELSE input[1]

\* What Math.random() * 30 + 10 gives for today's production.
ModelToday == {10000, 35000}

\* JavaScript's truthiness of userData[0].electricityPrice.
Truthy(value) == value # None /\ value[1] # 0

\* An invocation suspended at an await: the handler, where it waits, the
\* settings of the render it was created in (loadUserSettings reads none),
\* what the database answered, and whether its component is still mounted.
CostRun(kind, settings) ==
  [kind |-> kind, pc |-> 0,
   settings |-> IF kind = "load" THEN None ELSE Some(settings),
   value |-> None, mounted |-> TRUE]

\* The suspended invocations are a bag: two invocations of the same handler
\* from the same render are two invocations.
Suspend(runs, new) == runs (+) new

Resume(runs, r) == runs (-) SetToBag({r})

Replace(runs, r, next) == (runs (-) SetToBag({r})) (+) SetToBag({next})

\* useEffect(..., [calculateSavings]): loadUserSettings() and calculateSavings()
\* of the render that has the settings given.
CostEffect(settings) ==
  SetToBag({CostRun("load", settings), CostRun("calc", settings)})

\* What the last step was: loadUserSettings finishing with the price the
\* database answered, or anything else.
Loaded(value) == [kind |-> "loaded", value |-> value]

NoLoad == [kind |-> "other", value |-> None]

\* setSettings(prev => ({...prev, electricityPrice})), and the effect that runs
\* when the price, and with it calculateSavings, has changed.
SetElectricityPrice(price) ==
  /\ costSettings' = [costSettings EXCEPT !.electricityPrice = price]
  /\ IF price # costSettings.electricityPrice
     THEN /\ costCalls + 2 <= MaxCostCalls
          /\ costRuns' = Suspend(costRuns, CostEffect(costSettings'))
          /\ costCalls' = costCalls + 2
     ELSE UNCHANGED <<costRuns, costCalls>>

\* The price field's onChange.
ChangePrice ==
  /\ costAlert = ""
  /\ \E input \in ModelPriceInputs :
       /\ SetElectricityPrice(ParsePrice(input))
       /\ enteredPrice' = Some(ParsePrice(input))
  /\ costEvent' = NoLoad
  /\ UNCHANGED <<storedPrice, costSaving, costAlert, mockProduction, savings>>

\* loadUserSettings: blink.db.users.list answers, or it or blink.auth.me throws.
LoadRead ==
  /\ costAlert = ""
  /\ \E r \in BagToSet(costRuns) :
       /\ r.kind = "load" /\ r.pc = 0
       /\ \/ costRuns' = Replace(costRuns, r, [r EXCEPT !.pc = 1, !.value = storedPrice])
          \/ costRuns' = Resume(costRuns, r)
  /\ costEvent' = NoLoad
  /\ UNCHANGED <<storedPrice, costCalls, costSaving, costAlert, enteredPrice,
                 costSettings, mockProduction, savings>>

\* loadUserSettings after the list has answered.
LoadApply ==
  /\ costAlert = ""
  /\ \E r \in BagToSet(costRuns) :
       /\ r.kind = "load" /\ r.pc = 1
       /\ IF Truthy(r.value)
          THEN /\ costSettings' = [costSettings EXCEPT !.electricityPrice = r.value[1]]
               /\ IF r.value[1] # costSettings.electricityPrice
                  THEN /\ costCalls + 2 <= MaxCostCalls
                       /\ costRuns' = Suspend(Resume(costRuns, r), CostEffect(costSettings'))
                       /\ costCalls' = costCalls + 2
                  ELSE /\ costRuns' = Resume(costRuns, r)
                       /\ UNCHANGED costCalls
          ELSE /\ costRuns' = Resume(costRuns, r)
               /\ UNCHANGED <<costSettings, costCalls>>
       /\ costEvent' = Loaded(r.value)
  /\ UNCHANGED <<storedPrice, costSaving, costAlert, enteredPrice, mockProduction,
                 savings>>

\* calculateSavings after blink.auth.me: the savings of the price of the
\* render the invocation was created in; nothing when blink.auth.me throws.
CalculateDone ==
  /\ costAlert = ""
  /\ \E r \in BagToSet(costRuns) :
       /\ r.kind = "calc" /\ r.pc = 0
       /\ costRuns' = Resume(costRuns, r)
       /\ \/ \E production \in ModelToday :
               /\ mockProduction' = production
               /\ savings' = Some([by |-> "calculator",
                                   amount |-> calculateSavings(r.settings[1], production)])
          \/ UNCHANGED <<mockProduction, savings>>
  /\ costEvent' = NoLoad
  /\ UNCHANGED <<storedPrice, costCalls, costSaving, costAlert, enteredPrice,
                 costSettings>>

\* The Recalculate button: onClick={calculateSavings}.
ClickCalculate ==
  /\ costAlert = ""
  /\ costCalls + 1 <= MaxCostCalls
  /\ costRuns' = Suspend(costRuns, SetToBag({CostRun("calc", costSettings)}))
  /\ costCalls' = costCalls + 1
  /\ costEvent' = NoLoad
  /\ UNCHANGED <<storedPrice, costSaving, costAlert, enteredPrice, costSettings,
                 mockProduction, savings>>

\* Save Settings: handleSaveSettings up to its first await; the button is
\* disabled while saving.
ClickSave ==
  /\ costAlert = ""
  /\ IF costSaving
     THEN /\ costEvent' = NoLoad
          /\ UNCHANGED <<costRuns, costCalls, costSaving>>
     ELSE /\ costCalls + 1 <= MaxCostCalls
          /\ costSaving' = TRUE
          /\ costRuns' = Suspend(costRuns, SetToBag({CostRun("save", costSettings)}))
          /\ costCalls' = costCalls + 1
          /\ costEvent' = NoLoad
  /\ UNCHANGED <<storedPrice, costAlert, enteredPrice, costSettings, mockProduction,
                 savings>>

\* handleSaveSettings: blink.db.users.update writes the price of the render
\* the handler was created in, or it or blink.auth.me throws and the catch
\* block alerts.
SaveWrite ==
  /\ costAlert = ""
  /\ \E r \in BagToSet(costRuns) :
       /\ r.kind = "save" /\ r.pc = 0
       /\ \/ /\ storedPrice' = Some(r.settings[1].electricityPrice)
             /\ costRuns' = Replace(costRuns, r, [r EXCEPT !.pc = 1])
             /\ enteredPrice' = IF r.mounted /\ enteredPrice = Some(r.settings[1].electricityPrice)
                                THEN None ELSE enteredPrice
             /\ costEvent' = NoLoad
             /\ UNCHANGED costAlert
          \/ /\ costAlert' = "Failed to save settings"
             /\ costRuns' = Replace(costRuns, r, [r EXCEPT !.pc = 2])
             /\ costEvent' = NoLoad
             /\ UNCHANGED <<storedPrice, enteredPrice>>
  /\ UNCHANGED <<costCalls, costSaving, costSettings, mockProduction, savings>>

\* handleSaveSettings: await calculateSavings() of the same render, then the
\* alert.  A state update of an unmounted component has no effect.
SaveCalculate ==
  /\ costAlert = ""
  /\ \E r \in BagToSet(costRuns) :
       /\ r.kind = "save" /\ r.pc = 1
       /\ costRuns' = Replace(costRuns, r, [r EXCEPT !.pc = 2])
       /\ \/ /\ r.mounted
             /\ \E production \in ModelToday :
                  /\ mockProduction' = production
                  /\ savings' = Some([by |-> "calculator",
                                      amount |-> calculateSavings(r.settings[1], production)])
          \/ UNCHANGED <<mockProduction, savings>>
  /\ costAlert' = "Settings saved successfully!"
  /\ costEvent' = NoLoad
  /\ UNCHANGED <<storedPrice, costCalls, costSaving, enteredPrice, costSettings>>

\* The user closes the alert; handleSaveSettings runs its finally block.
DismissCostAlert ==
  /\ costAlert # ""
  /\ costAlert' = ""
  /\ \E r \in BagToSet(costRuns) :
       /\ r.kind = "save" /\ r.pc = 2
       /\ costRuns' = Resume(costRuns, r)
       /\ costSaving' = IF r.mounted THEN FALSE ELSE costSaving
  /\ costEvent' = NoLoad
  /\ UNCHANGED <<storedPrice, costCalls, enteredPrice, costSettings, mockProduction,
                 savings>>

\* The invocations of a component that has been unmounted: only a save still
\* does something, it writes and alerts.
Unmounted(runs) ==
  LET saves == {r \in BagToSet(runs) : r.kind = "save"}
      Count(z) == LET from == {r \in saves : [r EXCEPT !.mounted = FALSE] = z}
                      RECURSIVE Sum(_)
                      Sum(S) == IF S = {} THEN 0
                                ELSE LET x == CHOOSE x \in S : TRUE
                                     IN CopiesIn(x, runs) + Sum(S \ {x})
                  IN Sum(from)
  IN [z \in {[r EXCEPT !.mounted = FALSE] : r \in saves} |-> Count(z)]

\* The user leaves the calculator and returns: the component is mounted anew
\* with its initial state and its effect runs.  The invocations of the old
\* component update nothing any more; a save among them still writes.
CostRemount ==
  /\ costAlert = ""
  /\ costCalls + 2 <= MaxCostCalls
  /\ costSettings' = CostInitialSettings
  /\ savings' = None
  /\ mockProduction' = 0
  /\ costSaving' = FALSE
  /\ enteredPrice' = None
  /\ costRuns' = Suspend(Unmounted(costRuns), CostEffect(CostInitialSettings))
  /\ costCalls' = costCalls + 2
  /\ costEvent' = NoLoad
  /\ UNCHANGED <<storedPrice, costAlert>>

\* The calculator that no one has opened.
InitCost ==
  /\ storedPrice = None
  /\ costRuns = EmptyBag
  /\ costCalls = 0
  /\ costSaving = FALSE
  /\ costAlert = ""
  /\ costEvent = NoLoad
  /\ enteredPrice = None

\* ------------------------------------------------------------- Settings

MaxSaves == 4

SaveStatusNone == [type |-> "null", message |-> ""]

\* Save Changes: handleSaveSettings up to its first await; the button is
\* disabled while saving.
ClickSaveSettings ==
  /\ ~settingsSaving
  /\ saveAttempts < MaxSaves
  /\ settingsSaving' = TRUE
  /\ saveStatus' = SaveStatusNone
  /\ statusAttempt' = 0
  /\ saveAttempts' = saveAttempts + 1
  /\ saveRuns' = saveRuns \cup {saveAttempts + 1}
  /\ UNCHANGED <<saveTimers, lastClear>>

\* handleSaveSettings after blink.auth.updateMe and blink.db.users.update:
\* the success message and its timer, then the finally block.
SaveSettingsSucceeds ==
  /\ \E attempt \in saveRuns :
       /\ saveRuns' = saveRuns \ {attempt}
       /\ saveStatus' = [type |-> "success", message |-> "Settings saved successfully!"]
       /\ statusAttempt' = attempt
       /\ saveTimers' = saveTimers \cup {attempt}
  /\ settingsSaving' = FALSE
  /\ UNCHANGED <<saveAttempts, lastClear>>

\* handleSaveSettings when one of the two calls throws: the catch block, then
\* the finally block.
SaveSettingsFails ==
  /\ \E attempt \in saveRuns :
       /\ saveRuns' = saveRuns \ {attempt}
       /\ saveStatus' = [type |-> "error",
                         message |-> "Failed to save settings. Please try again."]
       /\ statusAttempt' = attempt
  /\ settingsSaving' = FALSE
  /\ UNCHANGED <<saveTimers, saveAttempts, lastClear>>

\* The callback of setTimeout(..., 3000); timers of equal delay fire in the
\* order they were set.
SaveTimerFires ==
  /\ saveTimers # {}
  /\ LET attempt == CHOOSE t \in saveTimers : \A u \in saveTimers : t <= u
     IN /\ saveTimers' = saveTimers \ {attempt}
        /\ lastClear' = IF saveStatus.type = "null" THEN lastClear
                        ELSE Some([message |-> statusAttempt, timer |-> attempt])
  /\ saveStatus' = SaveStatusNone
  /\ statusAttempt' = 0
  /\ UNCHANGED <<settingsSaving, saveRuns, saveAttempts>>

\* The settings page once loadUserSettings has finished.
InitSettings ==
  /\ saveStatus = SaveStatusNone
  /\ settingsSaving = FALSE
  /\ saveRuns = {}
  /\ saveTimers = {}
  /\ saveAttempts = 0
  /\ statusAttempt = 0
  /\ lastClear = None

\* ----------------------------------------------------------- DataImport

MaxImports == 2

MaxImportEdits == 2

RequiredFields == {"host", "token", "organization", "bucket"}

ModelFieldTexts == {"", "influx-a", "influx-b"}

ImportInitialConfig ==
  [host |-> "", port |-> "8086", token |-> "", organization |-> "", bucket |-> ""]

ImportInitialStatus == [status |-> "idle", progress |-> 0, errors |-> 0]

ProgressStep == 5

MockRowCount == 100

SecondsPerHour == 3600

\* The seconds an import takes at least (21 timers of 200 ms and one of 1 s)
\* and a longer pause.
ModelElapsed == {6, SecondsPerHour}

handleConfigChange(cfg, field, value) == [cfg EXCEPT ![field] = value]

\* The edit of one field of the configuration.
ChangeImportConfig ==
  /\ importEdits < MaxImportEdits
  /\ \E field \in RequiredFields, value \in ModelFieldTexts :
       /\ value # importConfig[field]
       /\ importConfig' = handleConfigChange(importConfig, field, value)
  /\ importEdits' = importEdits + 1
  /\ UNCHANGED <<importStatus, testConnection, testRuns, importRun, imports,
                 importOutcome, testedConfig, importNow, powerData>>

TestDisabled == testConnection.status = "testing" \/ importStatus.status = "importing"

\* Test Connection: handleTestConnection up to its await; the invocation
\* keeps the config of the render it was created in.
ClickTestConnection ==
  /\ ~TestDisabled
  /\ testConnection' = [status |-> "testing"]
  /\ testRuns' = testRuns (+) SetToBag({importConfig})
  /\ UNCHANGED <<importConfig, importStatus, importRun, importEdits, imports,
                 importOutcome, testedConfig, importNow, powerData>>

\* The mock validation of handleTestConnection.
ConfigComplete(cfg) == \A f \in RequiredFields : cfg[f] # ""

\* handleTestConnection after its timer of two seconds.
TestDone ==
  /\ \E cfg \in BagToSet(testRuns) :
       /\ testRuns' = testRuns (-) SetToBag({cfg})
       /\ IF ConfigComplete(cfg)
          THEN /\ testConnection' = [status |-> "success"]
               /\ testedConfig' = Some(cfg)
          ELSE /\ testConnection' = [status |-> "error"]
               /\ UNCHANGED testedConfig
  /\ UNCHANGED <<importConfig, importStatus, importRun, importEdits, imports,
                 importOutcome, importNow, powerData>>

StartImportDisabled ==
  \/ testConnection.status # "success"
  \/ importStatus.status \in {"importing", "connecting"}

\* handleStartImport up to its first await.
handleStartImport ==
  IF testConnection.status # "success"
  THEN /\ importOutcome' = "rejected"
       /\ UNCHANGED <<importStatus, importRun, imports>>
  ELSE /\ importStatus' = [status |-> "connecting", progress |-> 0, errors |-> 0]
       /\ importRun' = Some([pc |-> "me", i |-> 0])
       /\ imports' = imports + 1
       /\ importOutcome' = "started"

\* A click on Start Import: a disabled button dispatches nothing.
ClickStartImport ==
  /\ imports < MaxImports
  /\ IF StartImportDisabled
     THEN /\ importOutcome' = "ignored"
          /\ UNCHANGED <<importStatus, importRun, imports>>
     ELSE handleStartImport
  /\ UNCHANGED <<importConfig, testConnection, testRuns, importEdits, testedConfig,
                 importNow, powerData>>

\* The rows handleStartImport builds: row i is i hours before now.
RECURSIVE MockPowerData(_, _)
MockPowerData(now, n) ==
  IF n = 0 THEN <<>>
  ELSE Append(MockPowerData(now, n - 1),
              [inverterId |-> "mock-inverter-1",
               timestamp |-> now - (n - 1) * SecondsPerHour])

ImportFailed(prev) == [prev EXCEPT !.status = "error", !.errors = 1]

\* handleStartImport from one await to the next: blink.auth.me, the timers of
\* the progress loop, the timer before the insertion, blink.db.powerData
\* .createMany, which stores the rows in the order of the array.
ImportResume ==
  /\ importRun # None
  /\ LET r == importRun[1]
     IN CASE r.pc = "me" ->
               /\ importStatus' = [importStatus EXCEPT !.status = "importing"]
               /\ importRun' = Some([pc |-> "loop", i |-> 0])
               /\ UNCHANGED <<importNow, powerData>>
          [] r.pc = "loop" ->
               /\ importStatus' = [importStatus EXCEPT !.progress = r.i]
               /\ importRun' = IF r.i + ProgressStep <= 100
                               THEN Some([pc |-> "loop", i |-> r.i + ProgressStep])
                               ELSE Some([pc |-> "wait", i |-> r.i])
               /\ UNCHANGED <<importNow, powerData>>
          [] r.pc = "wait" ->
               /\ \E elapsed \in ModelElapsed : importNow' = importNow + elapsed
               /\ importRun' = Some([pc |-> "insert", i |-> r.i])
               /\ UNCHANGED <<importStatus, powerData>>
          [] r.pc = "insert" ->
               /\ powerData' = powerData \o MockPowerData(importNow, MockRowCount)
               /\ importStatus' = [status |-> "completed", progress |-> 100, errors |-> 0]
               /\ importRun' = None
               /\ UNCHANGED importNow
  /\ UNCHANGED <<importConfig, testConnection, testRuns, importEdits, imports,
                 importOutcome, testedConfig>>

\* blink.auth.me or blink.db.powerData.createMany throws: the catch block.
ImportFails ==
  /\ importRun # None
  /\ importRun[1].pc \in {"me", "insert"}
  /\ importStatus' = ImportFailed(importStatus)
  /\ importRun' = None
  /\ UNCHANGED <<importConfig, testConnection, testRuns, importEdits, imports,
                 importOutcome, testedConfig, importNow, powerData>>

\* "Start New Import", rendered for a completed or failed import.
resetImport ==
  /\ importStatus.status \in {"completed", "error"}
  /\ importStatus' = ImportInitialStatus
  /\ testConnection' = [status |-> "idle"]
  /\ UNCHANGED <<importConfig, testRuns, importRun, importEdits, imports,
                 importOutcome, testedConfig, importNow, powerData>>

\* The import page as it is mounted.
InitImport ==
  /\ importConfig = ImportInitialConfig
  /\ importStatus = ImportInitialStatus
  /\ testConnection = [status |-> "idle"]
  /\ testRuns = EmptyBag
  /\ importRun = None
  /\ importEdits = 0
  /\ imports = 0
  /\ importOutcome = "none"
  /\ testedConfig = None
  /\ importNow = 0
  /\ powerData = <<>>

\* ------------------------------------------------------------ Dashboard

MaxPolls == 4

InverterStatuses == {"online", "offline"}

\* The mount and every tick of setInterval(loadDashboardData, 30000) call
\* loadDashboardData, which waits for blink.auth.me and the list.
DashboardPoll ==
  /\ dashPolls < MaxPolls
  /\ dashPolls' = dashPolls + 1
  /\ dashRuns' = dashRuns + 1
  /\ UNCHANGED <<dbInverters, dashInverters, failedPolls>>

\* loadDashboardData once the list has answered: setInverters(invertersData),
\* then generateMockData gives every inverter the status Math.random() > 0.2
\* decides.
DashboardLoaded ==
  /\ dashRuns > 0
  /\ dashRuns' = dashRuns - 1
  /\ \E status \in [dbInverters -> InverterStatuses] :
       /\ dashInverters' = status
       /\ failedPolls' = [id \in dbInverters |->
                            IF status[id] = "offline"
                            THEN (IF id \in DOMAIN failedPolls THEN failedPolls[id] ELSE 0) + 1
                            ELSE 0]
  /\ UNCHANGED <<dbInverters, dashPolls>>

\* blink.auth.me or the list throws: the catch block logs.
DashboardLoadFails ==
  /\ dashRuns > 0
  /\ dashRuns' = dashRuns - 1
  /\ UNCHANGED <<dbInverters, dashInverters, dashPolls, failedPolls>>

\* The dashboard no one has opened, and no inverters.
InitDashboard ==
  /\ dbInverters = {}
  /\ dashInverters = <<>>
  /\ dashRuns = 0
  /\ dashPolls = 0
  /\ failedPolls = <<>>

\* --------------------------------------------------- InverterManagement

MaxInverterClicks == 3

\* An invocation suspended at an await: the handler, where it waits, the
\* inverter it is about (0: none), what the list answered, and whether its
\* component is still mounted.
InverterRun(kind, id) ==
  [kind |-> kind, pc |-> 0, id |-> id, data |-> <<>>, mounted |-> TRUE]

\* blink.db.inverters.list(..., orderBy: { createdAt: 'desc' }): the ids of
\* the rows, newest first; ids are given in the order of creation.
RECURSIVE ListInverters(_)
ListInverters(ids) ==
  IF ids = {} THEN <<>>
  ELSE LET newest == CHOOSE x \in ids : \A y \in ids : y <= x
       IN <<newest>> \o ListInverters(ids \ {newest})

InverterIds(list) == {list[i].id : i \in DOMAIN list}

\* prev.map(inv => inv.id === inverterId ? { ...inv, status: 'online' } : inv)
MarkOnline(list, id) ==
  [i \in DOMAIN list |-> IF list[i].id = id THEN [list[i] EXCEPT !.status = "online"]
                         ELSE list[i]]

\* prev.filter(inv => inv.id !== inverterId)
WithoutInverter(list, id) == LET Keep(inv) == inv.id # id IN SelectSeq(list, Keep)

\* loadInverters: blink.db.inverters.list answers, or it or blink.auth.me
\* throws.
InvertersRead ==
  /\ inverterAlert = ""
  /\ \E r \in BagToSet(inverterRuns) :
       /\ r.kind = "load" /\ r.pc = 0
       /\ \/ inverterRuns' = Replace(inverterRuns, r,
                                     [r EXCEPT !.pc = 1, !.data = ListInverters(dbInverters)])
          \/ inverterRuns' = Resume(inverterRuns, r)
  /\ inverterEvent' = "read"
  /\ UNCHANGED <<dbInverters, inverters, inverterSaving, inverterAlert, inverterClicks,
                 nextInverterId, deletedInverters>>

\* loadInverters after the list has answered: every row gets the status
\* Math.random() > 0.2 decides, and the list is replaced.
InvertersLoaded ==
  /\ inverterAlert = ""
  /\ \E r \in BagToSet(inverterRuns) :
       /\ r.kind = "load" /\ r.pc = 1
       /\ inverterRuns' = Resume(inverterRuns, r)
       /\ \E status \in [DOMAIN r.data -> InverterStatuses] :
            inverters' = [i \in DOMAIN r.data |-> [id |-> r.data[i], status |-> status[i]]]
  /\ inverterEvent' = "loaded"
  /\ UNCHANGED <<dbInverters, inverterSaving, inverterAlert, inverterClicks,
                 nextInverterId, deletedInverters>>

\* The menu's Test Connection: testInverterConnection up to its timer.
ClickTestInverter ==
  /\ inverterAlert = ""
  /\ inverterClicks < MaxInverterClicks
  /\ \E id \in InverterIds(inverters) :
       inverterRuns' = Suspend(inverterRuns, SetToBag({InverterRun("test", id)}))
  /\ inverterClicks' = inverterClicks + 1
  /\ inverterEvent' = "clicked"
  /\ UNCHANGED <<dbInverters, inverters, inverterSaving, inverterAlert,
                 nextInverterId, deletedInverters>>

\* testInverterConnection after its timer of two seconds.
TestInverterDone ==
  /\ inverterAlert = ""
  /\ \E r \in BagToSet(inverterRuns) :
       /\ r.kind = "test"
       /\ inverterRuns' = Resume(inverterRuns, r)
       /\ inverters' = MarkOnline(inverters, r.id)
  /\ inverterEvent' = "tested"
  /\ UNCHANGED <<dbInverters, inverterSaving, inverterAlert, inverterClicks,
                 nextInverterId, deletedInverters>>

\* The menu's Delete: handleDeleteInverter up to its await; the user answers
\* the confirm dialog.
ClickDeleteInverter ==
  /\ inverterAlert = ""
  /\ inverterClicks < MaxInverterClicks
  /\ \E id \in InverterIds(inverters), confirmed \in BOOLEAN :
       IF confirmed
       THEN /\ inverterRuns' = Suspend(inverterRuns, SetToBag({InverterRun("delete", id)}))
            /\ inverterEvent' = "clicked"
       ELSE /\ inverterEvent' = "declined"
            /\ UNCHANGED inverterRuns
  /\ inverterClicks' = inverterClicks + 1
  /\ UNCHANGED <<dbInverters, inverters, inverterSaving, inverterAlert,
                 nextInverterId, deletedInverters>>

\* handleDeleteInverter after blink.db.inverters.delete: the row is gone and
\* the inverter leaves the list, or the call throws and the catch block
\* alerts.  A state update of an unmounted component has no effect.
DeleteInverterDone ==
  /\ inverterAlert = ""
  /\ \E r \in BagToSet(inverterRuns) :
       /\ r.kind = "delete" /\ r.pc = 0
       /\ \/ /\ dbInverters' = dbInverters \ {r.id}
             /\ deletedInverters' = deletedInverters \cup {r.id}
             /\ inverters' = IF r.mounted THEN WithoutInverter(inverters, r.id)
                             ELSE inverters
             /\ inverterRuns' = Resume(inverterRuns, r)
             /\ inverterEvent' = "deleted"
             /\ UNCHANGED inverterAlert
          \/ /\ inverterAlert' = "Failed to delete inverter. Please try again."
             /\ inverterRuns' = Replace(inverterRuns, r, [r EXCEPT !.pc = 1])
             /\ inverterEvent' = "delete failed"
             /\ UNCHANGED <<dbInverters, deletedInverters, inverters>>
  /\ UNCHANGED <<inverterSaving, inverterClicks, nextInverterId>>

\* Add Inverter: handleAddInverter up to its first await; the button is
\* disabled while saving.
ClickAddInverter ==
  /\ inverterAlert = ""
  /\ inverterClicks < MaxInverterClicks
  /\ ~inverterSaving
  /\ inverterSaving' = TRUE
  /\ inverterRuns' = Suspend(inverterRuns, SetToBag({InverterRun("add", 0)}))
  /\ inverterClicks' = inverterClicks + 1
  /\ inverterEvent' = "clicked"
  /\ UNCHANGED <<dbInverters, inverters, inverterAlert, nextInverterId,
                 deletedInverters>>

\* handleAddInverter after blink.db.inverters.create: the new row heads the
\* list and its connection test starts; or a call throws and the catch block
\* alerts.
AddInverterDone ==
  /\ inverterAlert = ""
  /\ \E r \in BagToSet(inverterRuns) :
       /\ r.kind = "add" /\ r.pc = 0
       /\ \/ /\ dbInverters' = dbInverters \cup {nextInverterId}
             /\ nextInverterId' = nextInverterId + 1
             /\ IF r.mounted
                THEN /\ inverters' = <<[id |-> nextInverterId, status |-> "offline"]>>
                                       \o inverters
                     /\ inverterRuns' = Replace(inverterRuns, r,
                                                InverterRun("test", nextInverterId))
                     /\ inverterSaving' = FALSE
                ELSE /\ inverterRuns' = Resume(inverterRuns, r)
                     /\ UNCHANGED <<inverters, inverterSaving>>
             /\ inverterEvent' = "added"
             /\ UNCHANGED inverterAlert
          \/ /\ inverterAlert' = "Failed to add inverter. Please try again."
             /\ inverterRuns' = Replace(inverterRuns, r, [r EXCEPT !.pc = 1])
             /\ inverterEvent' = "add failed"
             /\ UNCHANGED <<dbInverters, nextInverterId, inverters, inverterSaving>>
  /\ UNCHANGED <<inverterClicks, deletedInverters>>

\* The user closes the alert; handleAddInverter runs its finally block.
DismissInverterAlert ==
  /\ inverterAlert # ""
  /\ inverterAlert' = ""
  /\ \E r \in BagToSet(inverterRuns) :
       /\ r.pc = 1 /\ r.kind \in {"add", "delete"}
       /\ inverterRuns' = Resume(inverterRuns, r)
       /\ inverterSaving' = IF r.kind = "add" /\ r.mounted THEN FALSE ELSE inverterSaving
  /\ inverterEvent' = "dismissed"
  /\ UNCHANGED <<dbInverters, inverters, inverterClicks, nextInverterId,
                 deletedInverters>>

\* The invocations of a component that has been unmounted: only the calls to
\* the database still do something.
UnmountedInverterRuns(runs) ==
  LET calls == {r \in BagToSet(runs) : r.kind \in {"add", "delete"}}
      Copies(z) == LET from == {r \in calls : [r EXCEPT !.mounted = FALSE] = z}
                       RECURSIVE Sum(_)
                       Sum(S) == IF S = {} THEN 0
                                 ELSE LET x == CHOOSE x \in S : TRUE
                                      IN CopiesIn(x, runs) + Sum(S \ {x})
                   IN Sum(from)
  IN [z \in {[r EXCEPT !.mounted = FALSE] : r \in calls} |-> Copies(z)]

\* The user leaves the inverter page and returns: the component is mounted
\* anew with an empty list and its effect calls loadInverters.
InverterRemount ==
  /\ inverterAlert = ""
  /\ inverters' = <<>>
  /\ inverterSaving' = FALSE
  /\ inverterRuns' = Suspend(UnmountedInverterRuns(inverterRuns),
                             SetToBag({InverterRun("load", 0)}))
  /\ inverterEvent' = "mounted"
  /\ UNCHANGED <<dbInverters, inverterAlert, inverterClicks, nextInverterId,
                 deletedInverters>>

\* The inverter page no one has opened.
InitInverters ==
  /\ inverters = <<>>
  /\ inverterRuns = EmptyBag
  /\ inverterSaving = FALSE
  /\ inverterAlert = ""
  /\ inverterClicks = 0
  /\ nextInverterId = 1
  /\ deletedInverters = {}
  /\ inverterEvent = "none"

\* ---------------------------------------------------------------- App

\* The user closes the alert dialog; until then the page's script is blocked.
DismissAlert ==
  /\ alertMsg # ""
  /\ alertMsg' = ""
  /\ UNCHANGED <<currentPage, jobs, requestOutcome, reportVars, exportVars>>

\* The state of a component that has just been mounted.  The configuration
\* of the report starts at the month and the year of the day it is mounted.
ReportMounted ==
  /\ reportConfig' \in [month : ModelMonths, year : ModelYears]
  /\ reportStatus' = ReportInitialStatus
  /\ reportData' = None
  /\ recentReports' = InitialRecentReports
  /\ reportRuns' = {}

ExportMounted ==
  /\ exportConfig' = ExportInitialConfig
  /\ exportStatus' = ExportInitialStatus
  /\ exportRuns' = {}
  /\ exportBlob' = None
  /\ edits' = 0
  /\ UNCHANGED objectUrls

\* onNavigate(key): renderPage mounts the page's component anew and unmounts the
\* one shown before, whose state is gone; a state update of an unmounted
\* component has no effect, so its suspended invocations are dropped.
Navigate ==
  /\ alertMsg = ""
  /\ \E p \in Pages \ {currentPage} : currentPage' = p
  /\ ReportMounted
  /\ ExportMounted
  /\ jobs' = 0
  /\ requestOutcome' = "none"
  /\ UNCHANGED alertMsg

InitApp ==
  /\ currentPage = "dashboard"
  /\ alertMsg = ""
  /\ jobs = 0
  /\ requestOutcome = "none"
  /\ reportConfig \in [month : ModelMonths, year : ModelYears]
  /\ reportStatus = ReportInitialStatus
  /\ reportData = None
  /\ recentReports = InitialRecentReports
  /\ reportRuns = {}
  /\ edits = 0
  /\ exportConfig = ExportInitialConfig
  /\ exportStatus = ExportInitialStatus
  /\ exportRuns = {}
  /\ exportBlob = None
  /\ objectUrls = {}

\* The pages no one has opened.
InitPages == InitCost /\ InitSettings /\ InitImport /\ InitDashboard /\ InitInverters

\* The report data and the savings before anything is computed.
InitCalc ==
  /\ reportInput = [month |-> 0, year |-> 2024,
                    random |-> <<[production |-> 10000, power |-> 500000]>>]
  /\ aggregate = None
  /\ costSettings = CostInitialSettings
  /\ mockProduction = 0
  /\ savings = None
  /\ InitPages

InitSerializers ==
  /\ mockConfig = ExportInitialConfig
  /\ mockRandom = <<0>>
  /\ exportData = <<>>
  /\ fileContent = None
  /\ InitCalc

Init == InitApp /\ InitSerializers

Next ==
  \/ Navigate /\ UNCHANGED <<serializerVars, pageVars>>
  \/ DismissAlert /\ UNCHANGED <<serializerVars, pageVars>>
  \/ ClickGenerateReport /\ UNCHANGED <<serializerVars, pageVars>>
  \/ ReportResume /\ UNCHANGED <<serializerVars, pageVars>>
  \/ ReportFail /\ UNCHANGED <<serializerVars, pageVars>>
  \/ resetGenerator /\ UNCHANGED <<serializerVars, pageVars>>
  \/ handleDownloadReport /\ UNCHANGED <<serializerVars, pageVars>>
  \/ SetReportPeriod /\ UNCHANGED <<serializerVars, pageVars>>
  \/ ClickStartExport /\ UNCHANGED <<serializerVars, pageVars>>
  \/ ExportResume /\ UNCHANGED <<serializerVars, pageVars>>
  \/ handleDownload /\ UNCHANGED <<serializerVars, pageVars>>
  \/ resetExport /\ UNCHANGED <<serializerVars, pageVars>>
  \/ ToggleFields /\ UNCHANGED <<serializerVars, pageVars>>
  \/ ToggleInverter /\ UNCHANGED <<serializerVars, pageVars>>
  \/ SelectAllInverters /\ UNCHANGED <<serializerVars, pageVars>>
  \/ SelectFormat /\ UNCHANGED <<serializerVars, pageVars>>
  \/ SelectDateRange /\ UNCHANGED <<serializerVars, pageVars>>

\* The application: the pages, the report generator and the data export.
Spec == Init /\ [][Next]_vars

\* ------------------------------------------------------------ serializers

\* The values of a cell, the column sets and the tables convertToCSV is
\* applied to.
ModelCellValues ==
  { StringValue(<<>>), StringValue(<<"x">>), StringValue(<<"x", ",", "y">>),
    StringValue(<<"x", "\n", "y">>), StringValue(<<"\"">>), NumberValue(42) }

ModelHeaders == { <<"a">>, <<"a", "b">> }

ModelTables ==
  UNION { [1..n -> UNION { { [i \in DOMAIN h |-> <<h[i], c[i]>>] :
                             c \in [DOMAIN h -> ModelCellValues] } : h \in {hs} }] :
          n \in 0..MaxRows, hs \in ModelHeaders }

ModelRandoms == { <<0>>, <<999>>, <<0, 999>> }

\* The configurations handleStartExport hands to generateMockData: at least
\* one field is selected and the range has an end date.
ModelMockConfigs ==
  { [ExportInitialConfig EXCEPT !.includeFields = inc,
                                !.dateRange = [from |-> 0, to |-> Some(d)]] :
      inc \in {f \in [Range(FieldNames) -> BOOLEAN] : \E x \in Range(FieldNames) : f[x]},
      d \in 0..MaxDays }

ApplyConvertToCSV ==
  /\ fileContent = None
  /\ fileContent' = Some(convertToCSV(exportData))
  /\ UNCHANGED <<appVars, pageVars, calcVars, mockConfig, mockRandom, exportData>>

\* convertToCSV applied to any table.
InitCSV ==
  /\ InitApp
  /\ mockConfig = ExportInitialConfig
  /\ mockRandom = <<0>>
  /\ exportData \in ModelTables
  /\ fileContent = None
  /\ InitCalc

NextCSV == ApplyConvertToCSV

SpecCSV == InitCSV /\ [][NextCSV]_vars

\* generateMockData, then convertToCSV, as handleStartExport applies them for
\* the csv format.
ApplyGenerateMockData ==
  /\ exportData = <<>> /\ fileContent = None
  /\ RecordCount(mockConfig) > 0
  /\ exportData' = generateMockData(mockConfig, mockRandom)
  /\ UNCHANGED <<appVars, pageVars, calcVars, mockConfig, mockRandom, fileContent>>

ApplyExportCSV ==
  /\ exportData = generateMockData(mockConfig, mockRandom)
  /\ ApplyConvertToCSV

InitExportData ==
  /\ InitApp
  /\ mockConfig \in ModelMockConfigs
  /\ mockRandom \in ModelRandoms
  /\ exportData = <<>>
  /\ fileContent = None
  /\ InitCalc

NextExportData ==
  \/ ApplyGenerateMockData
  \/ ApplyExportCSV

SpecExportData == InitExportData /\ [][NextExportData]_vars

\* ------------------------------------------------------- JSON.stringify

\* Array.prototype.join with a separator of several characters.
RECURSIVE JoinWith(_, _)
JoinWith(parts, sep) ==
  IF Len(parts) = 0 THEN <<>>
  ELSE IF Len(parts) = 1 THEN parts[1]
  ELSE parts[1] \o sep \o JoinWith(Tail(parts), sep)

\* JSON.stringify's escapes of the characters of a string.
RECURSIVE JsonEscape(_)
JsonEscape(tokens) ==
  IF Len(tokens) = 0 THEN <<>>
  ELSE (CASE Head(tokens) = "\"" -> <<"\\", "\"">>
          [] Head(tokens) = "\\" -> <<"\\", "\\">>
          [] Head(tokens) = "\n" -> <<"\\", "n">>
          [] OTHER -> <<Head(tokens)>>) \o JsonEscape(Tail(tokens))

\* A string written between quotes as it is.
JsonStringUnescaped(tokens) == <<"\"">> \o tokens \o <<"\"">>

\* The text of a string: its escaped characters between quotes.
JsonString(tokens) == <<"\"">> \o JsonEscape(tokens) \o <<"\"">>

DigitChars == <<"0", "1", "2", "3", "4", "5", "6", "7", "8", "9">>

\* The text of a number that is not negative: its decimal digits, one token
\* each.
RECURSIVE JsonNumber(_)
JsonNumber(n) ==
  IF n < 10 THEN <<DigitChars[n + 1]>>
  ELSE JsonNumber(n \div 10) \o <<DigitChars[(n % 10) + 1]>>

JsonValue(value) ==
  IF value.type = "string" THEN JsonString(value.v) ELSE JsonNumber(value.v)

\* The indentation of JSON.stringify(data, null, 2): two spaces a level.
JsonIndent == "  "

\* One record of the array: its properties in the order of its keys, each on
\* a line of its own, four spaces in; "{}" for a record without keys.
JsonObject(record) ==
  IF Len(record) = 0 THEN <<"{", "}">>
  ELSE <<"{", "\n">>
       \o JoinWith([i \in DOMAIN record |->
                      <<JsonIndent, JsonIndent>> \o JsonString(<<record[i][1]>>)
                        \o <<":", " ">> \o JsonValue(record[i][2])], <<",", "\n">>)
       \o <<"\n", JsonIndent, "}">>

\* The array without its last record.
convertToJSONDroppingLast(data) ==
  IF Len(data) <= 1 THEN <<"[", "]">>
  ELSE <<"[", "\n">>
       \o JoinWith([k \in 1..(Len(data) - 1) |-> <<JsonIndent>> \o JsonObject(data[k])],
                   <<",", "\n">>)
       \o <<"\n", "]">>

\* convertToJSON: JSON.stringify(data, null, 2)
convertToJSON(data) ==
  IF Len(data) = 0 THEN <<"[", "]">>
  ELSE <<"[", "\n">>
       \o JoinWith([k \in DOMAIN data |-> <<JsonIndent>> \o JsonObject(data[k])],
                   <<",", "\n">>)
       \o <<"\n", "]">>

\* The fileContent of handleStartExport's switch.
ExportFileContent(format, data) ==
  CASE format = "csv" -> convertToCSV(data)
    [] format = "excel" -> convertToCSV(data)
    [] format = "json" -> convertToJSON(data)

\* The field selections, and with them the configurations, of the exports
\* that are written in every format.
ModelSelections ==
  { Range(FieldNames), {"timestamp", "acPower"}, {"timestamp", "yield"},
    {"acVoltage", "temperature"} }

ModelFormatConfigs ==
  { [ExportInitialConfig EXCEPT !.format = f,
                                !.includeFields = [x \in Range(FieldNames) |-> x \in sel],
                                !.dateRange = [from |-> 0, to |-> Some(d)]] :
      f \in Formats, sel \in ModelSelections, d \in 0..MaxDays }

\* The data of generateMockData written in the format of the configuration.
ApplyExportFile ==
  /\ exportData = generateMockData(mockConfig, mockRandom)
  /\ fileContent = None
  /\ fileContent' = Some(ExportFileContent(mockConfig.format, exportData))
  /\ UNCHANGED <<appVars, pageVars, calcVars, mockConfig, mockRandom, exportData>>

\* The same export once more: generateMockData draws from Math.random() anew.
ApplyExportAgain ==
  /\ fileContent # None
  /\ \E rnd \in ModelRandoms :
       /\ mockRandom' = rnd
       /\ exportData' = generateMockData(mockConfig, rnd)
       /\ fileContent' = Some(ExportFileContent(mockConfig.format, exportData'))
  /\ UNCHANGED <<appVars, pageVars, calcVars, mockConfig>>

InitExportFormats ==
  /\ InitApp
  /\ mockConfig \in ModelFormatConfigs
  /\ mockRandom \in ModelRandoms
  /\ exportData = <<>>
  /\ fileContent = None
  /\ InitCalc

NextExportFormats ==
  \/ ApplyGenerateMockData
  \/ ApplyExportFile
  \/ ApplyExportAgain

\* generateMockData, then the serializer of the format, as handleStartExport
\* applies them, once and again.
SpecExportFormats == InitExportFormats /\ [][NextExportFormats]_vars

\* The values and the tables convertToJSON is applied to.
ModelJsonValues == ModelCellValues \cup { StringValue(<<"\\", "n">>) }

ModelJsonTables ==
  UNION { [1..n -> UNION { { [i \in DOMAIN h |-> <<h[i], c[i]>>] :
                             c \in [DOMAIN h -> ModelJsonValues] } : h \in {hs} }] :
          n \in 0..MaxRows, hs \in ModelHeaders }

ApplyConvertToJSON ==
  /\ fileContent = None
  /\ fileContent' = Some(convertToJSON(exportData))
  /\ UNCHANGED <<appVars, pageVars, calcVars, mockConfig, mockRandom, exportData>>

InitJSON ==
  /\ InitApp
  /\ mockConfig = ExportInitialConfig
  /\ mockRandom = <<0>>
  /\ exportData \in ModelJsonTables
  /\ fileContent = None
  /\ InitCalc

NextJSON == ApplyConvertToJSON

\* convertToJSON applied to any table.
SpecJSON == InitJSON /\ [][NextJSON]_vars

\* ------------------------------------------------------------ report data

MaxPattern == 2

\* What Math.random() returns in generateMockReportData, repeated over the
\* days of the month: two of the productions are equal once cut to two
\* decimals.
ModelDraws ==
  { [production |-> e, power |-> w] : e \in {10000, 25004, 25009}, w \in {500000, 1999999} }

ModelReportRandoms == UNION { [1..n -> ModelDraws] : n \in 1..MaxPattern }

ModelReportMonths == 0..11

ModelReportYears == {2023, 2024}

ApplyGenerateMockReportData ==
  /\ aggregate = None
  /\ aggregate' = Some(ReportDataOf(reportInput.month, reportInput.year, reportInput.random))
  /\ UNCHANGED <<appVars, pageVars, mockConfig, mockRandom, exportData, fileContent,
                 reportInput, costSettings, mockProduction, savings>>

InitReportData ==
  /\ InitApp
  /\ mockConfig = ExportInitialConfig
  /\ mockRandom = <<0>>
  /\ exportData = <<>>
  /\ fileContent = None
  /\ reportInput \in [month : ModelReportMonths, year : ModelReportYears,
                      random : ModelReportRandoms]
  /\ aggregate = None
  /\ costSettings = CostInitialSettings
  /\ mockProduction = 0
  /\ savings = None
  /\ InitPages

NextReportData == ApplyGenerateMockReportData

\* generateMockReportData applied to any month.
SpecReportData == InitReportData /\ [][NextReportData]_vars

\* ------------------------------------------------------------ savings

\* The prices and tax rates the owner enters and the productions the savings
\* are derived from.
ModelPrices == {0, 120, 250, 300}

ModelTaxRates == {0, 10, 20}

ModelProductions == {10000, 12345, 35000, 39999}

\* CostCalculator: calculateSavings (today).
ApplyCalculateSavings ==
  /\ savings = None
  /\ savings' = Some([by |-> "calculator",
                      amount |-> calculateSavings(costSettings, mockProduction)])
  /\ UNCHANGED <<appVars, pageVars, mockConfig, mockRandom, exportData, fileContent,
                 reportInput, aggregate, costSettings, mockProduction>>

\* ReportsGenerator: the savings of a day of the report.
ApplyReportSavings ==
  /\ savings = None
  /\ savings' = Some([by |-> "report", amount |-> ReportSavings(mockProduction)])
  /\ UNCHANGED <<appVars, pageVars, mockConfig, mockRandom, exportData, fileContent,
                 reportInput, aggregate, costSettings, mockProduction>>

\* Dashboard: savingsToday; yieldToday is a whole number of kWh.
ApplyDashboardSavings ==
  /\ savings = None
  /\ mockProduction % 1000 = 0
  /\ savings' = Some([by |-> "dashboard", amount |-> DashboardSavings(mockProduction)])
  /\ UNCHANGED <<appVars, pageVars, mockConfig, mockRandom, exportData, fileContent,
                 reportInput, aggregate, costSettings, mockProduction>>

InitSavings ==
  /\ InitApp
  /\ mockConfig = ExportInitialConfig
  /\ mockRandom = <<0>>
  /\ exportData = <<>>
  /\ fileContent = None
  /\ reportInput = [month |-> 0, year |-> 2024,
                    random |-> <<[production |-> 10000, power |-> 500000]>>]
  /\ aggregate = None
  /\ costSettings \in [electricityPrice : ModelPrices, currency : {"USD"},
                       taxRate : ModelTaxRates]
  /\ mockProduction \in ModelProductions
  /\ savings = None
  /\ InitPages

NextSavings ==
  \/ ApplyCalculateSavings
  \/ ApplyReportSavings
  \/ ApplyDashboardSavings

\* The savings the calculator, the report and the dashboard derive.
SpecSavings == InitSavings /\ [][NextSavings]_vars

\* ------------------------------------------------------ cost calculator

\* What the pages other than the calculator hold.
restOfCost == <<appVars, mockConfig, mockRandom, exportData, fileContent,
                reportInput, aggregate, settingsVars, importVars, dashVars, inverterVars>>

\* The calculator has just been mounted, its effect has run; the users
\* record holds no price yet or the price saved before.
InitCostCalculator ==
  /\ InitApp
  /\ mockConfig = ExportInitialConfig
  /\ mockRandom = <<0>>
  /\ exportData = <<>>
  /\ fileContent = None
  /\ reportInput = [month |-> 0, year |-> 2024,
                    random |-> <<[production |-> 10000, power |-> 500000]>>]
  /\ aggregate = None
  /\ costSettings = CostInitialSettings
  /\ mockProduction = 0
  /\ savings = None
  /\ storedPrice \in {None, Some(PricePerKwh)}
  /\ costRuns = CostEffect(CostInitialSettings)
  /\ costCalls = 2
  /\ costSaving = FALSE
  /\ costAlert = ""
  /\ costEvent = NoLoad
  /\ enteredPrice = None
  /\ InitSettings
  /\ InitImport
  /\ InitDashboard
  /\ InitInverters

NextCostCalculator ==
  \/ ChangePrice /\ UNCHANGED restOfCost
  \/ LoadRead /\ UNCHANGED restOfCost
  \/ LoadApply /\ UNCHANGED restOfCost
  \/ CalculateDone /\ UNCHANGED restOfCost
  \/ ClickCalculate /\ UNCHANGED restOfCost
  \/ ClickSave /\ UNCHANGED restOfCost
  \/ SaveWrite /\ UNCHANGED restOfCost
  \/ SaveCalculate /\ UNCHANGED restOfCost
  \/ DismissCostAlert /\ UNCHANGED restOfCost
  \/ CostRemount /\ UNCHANGED restOfCost

\* The cost calculator and the users record it reads and writes.
SpecCostCalculator == InitCostCalculator /\ [][NextCostCalculator]_vars

\* ------------------------------------------------------------ settings

restOfSettings == <<appVars, serializerVars, costVars, importVars, dashVars, inverterVars>>

InitSettingsPage == InitApp /\ InitSerializers

NextSettings ==
  \/ ClickSaveSettings /\ UNCHANGED restOfSettings
  \/ SaveSettingsSucceeds /\ UNCHANGED restOfSettings
  \/ SaveSettingsFails /\ UNCHANGED restOfSettings
  \/ SaveTimerFires /\ UNCHANGED restOfSettings

\* The saves of the settings page and the timers they set.
SpecSettings == InitSettingsPage /\ [][NextSettings]_vars

\* ------------------------------------------------------------ data import

restOfImport == <<appVars, serializerVars, costVars, settingsVars, dashVars, inverterVars>>

\* The configurations the user has typed before the first click.
ModelImportConfigs ==
  { [ImportInitialConfig EXCEPT !.host = h, !.token = "influx-a",
                                !.organization = "influx-a", !.bucket = "influx-a"] :
      h \in {"", "influx-a"} }

InitDataImport ==
  /\ InitApp
  /\ mockConfig = ExportInitialConfig
  /\ mockRandom = <<0>>
  /\ exportData = <<>>
  /\ fileContent = None
  /\ reportInput = [month |-> 0, year |-> 2024,
                    random |-> <<[production |-> 10000, power |-> 500000]>>]
  /\ aggregate = None
  /\ costSettings = CostInitialSettings
  /\ mockProduction = 0
  /\ savings = None
  /\ InitCost
  /\ InitSettings
  /\ InitDashboard
  /\ InitInverters
  /\ importConfig \in ModelImportConfigs
  /\ importStatus = ImportInitialStatus
  /\ testConnection = [status |-> "idle"]
  /\ testRuns = EmptyBag
  /\ importRun = None
  /\ importEdits = 0
  /\ imports = 0
  /\ importOutcome = "none"
  /\ testedConfig = None
  /\ importNow = 0
  /\ powerData = <<>>

NextDataImport ==
  \/ ChangeImportConfig /\ UNCHANGED restOfImport
  \/ ClickTestConnection /\ UNCHANGED restOfImport
  \/ TestDone /\ UNCHANGED restOfImport
  \/ ClickStartImport /\ UNCHANGED restOfImport
  \/ ImportResume /\ UNCHANGED restOfImport
  \/ ImportFails /\ UNCHANGED restOfImport
  \/ resetImport /\ UNCHANGED restOfImport

\* The import page and the powerData table it writes.
SpecDataImport == InitDataImport /\ [][NextDataImport]_vars

\* ------------------------------------------------------------ dashboard

restOfDashboard == <<appVars, serializerVars, costVars, settingsVars, importVars, inverterVars>>

ModelInverterIds == {1, 2}

\* The dashboard is mounted: its first loadDashboardData is under way.
InitDashboardPage ==
  /\ InitApp
  /\ mockConfig = ExportInitialConfig
  /\ mockRandom = <<0>>
  /\ exportData = <<>>
  /\ fileContent = None
  /\ reportInput = [month |-> 0, year |-> 2024,
                    random |-> <<[production |-> 10000, power |-> 500000]>>]
  /\ aggregate = None
  /\ costSettings = CostInitialSettings
  /\ mockProduction = 0
  /\ savings = None
  /\ InitCost
  /\ InitSettings
  /\ InitImport
  /\ InitInverters
  /\ dbInverters = ModelInverterIds
  /\ dashInverters = <<>>
  /\ dashRuns = 1
  /\ dashPolls = 1
  /\ failedPolls = <<>>

NextDashboard ==
  \/ DashboardPoll /\ UNCHANGED restOfDashboard
  \/ DashboardLoaded /\ UNCHANGED restOfDashboard
  \/ DashboardLoadFails /\ UNCHANGED restOfDashboard

\* The dashboard polling the inverters.
SpecDashboard == InitDashboardPage /\ [][NextDashboard]_vars

\* ------------------------------------------------------------ inverters

restOfInverters == <<appVars, serializerVars, costVars, settingsVars, importVars,
                     dashInverters, dashRuns, dashPolls, failedPolls>>

\* The inverter page has just been mounted and its loadInverters is under
\* way; the table holds one inverter.
InitInverterManagement ==
  /\ InitApp
  /\ mockConfig = ExportInitialConfig
  /\ mockRandom = <<0>>
  /\ exportData = <<>>
  /\ fileContent = None
  /\ reportInput = [month |-> 0, year |-> 2024,
                    random |-> <<[production |-> 10000, power |-> 500000]>>]
  /\ aggregate = None
  /\ costSettings = CostInitialSettings
  /\ mockProduction = 0
  /\ savings = None
  /\ InitCost
  /\ InitSettings
  /\ InitImport
  /\ dbInverters = {1}
  /\ dashInverters = <<>>
  /\ dashRuns = 0
  /\ dashPolls = 0
  /\ failedPolls = <<>>
  /\ inverters = <<>>
  /\ inverterRuns = SetToBag({InverterRun("load", 0)})
  /\ inverterSaving = FALSE
  /\ inverterAlert = ""
  /\ inverterClicks = 0
  /\ nextInverterId = 2
  /\ deletedInverters = {}
  /\ inverterEvent = "mounted"

NextInverterManagement ==
  \/ InvertersRead /\ UNCHANGED restOfInverters
  \/ InvertersLoaded /\ UNCHANGED restOfInverters
  \/ ClickTestInverter /\ UNCHANGED restOfInverters
  \/ TestInverterDone /\ UNCHANGED restOfInverters
  \/ ClickDeleteInverter /\ UNCHANGED restOfInverters
  \/ DeleteInverterDone /\ UNCHANGED restOfInverters
  \/ ClickAddInverter /\ UNCHANGED restOfInverters
  \/ AddInverterDone /\ UNCHANGED restOfInverters
  \/ DismissInverterAlert /\ UNCHANGED restOfInverters
  \/ InverterRemount /\ UNCHANGED restOfInverters

\* The inverter page and the inverters table.
SpecInverterManagement == InitInverterManagement /\ [][NextInverterManagement]_vars

\* ------------------------------------------------------------------ claims

\* Split a text into its lines at the "\n" tokens.
RECURSIVE Lines(_)
Lines(text) ==
  IF \E i \in DOMAIN text : text[i] = "\n"
  THEN LET i == CHOOSE j \in DOMAIN text :
                  text[j] = "\n" /\ \A k \in 1..(j - 1) : text[k] # "\n"
       IN <<SubSeq(text, 1, i - 1)>> \o Lines(SubSeq(text, i + 1, Len(text)))
  ELSE <<text>>

C2_StateMachine ==
  [][ /\ (reportStatus'.status = "generating" /\ reportStatus.status # "generating"
            => reportStatus.status = "idle")
      /\ (reportStatus'.status \in {"completed", "error"}
            /\ reportStatus.status # reportStatus'.status
            => reportStatus.status = "generating") ]_vars

\* C3: the progress of the report job is an integer in 0..100 and, from one
\* state of a running job to the next in which it is running or completed,
\* never decreases.
C3_ProgressMonotone ==
  [][ /\ reportStatus'.progress \in 0..100
      /\ (reportStatus.status = "generating"
            /\ reportStatus'.status \in {"generating", "completed"}
            => reportStatus'.progress >= reportStatus.progress) ]_vars

C3_Witness ==
  /\ reportStatus.status = "generating"
  /\ reportStatus.progress = 80

C5_ArtifactIffCompleted ==
  /\ reportStatus.downloadUrl # None <=> reportStatus.status = "completed"
  /\ exportStatus.downloadUrl # None <=> exportStatus.status = "completed"
  /\ exportStatus.fileName # None <=> exportStatus.status = "completed"
  /\ reportStatus.status = "completed" => reportStatus.progress = 100
  /\ exportStatus.status = "completed" => exportStatus.progress = 100

C5_Witness ==
  /\ exportStatus.status = "completed"
  /\ exportStatus.downloadUrl # None
  /\ exportStatus.fileName # None

\* C6: a running export or report job can be cancelled: while a job runs, its
\* component offers a cancel control.
C6_RunningJobCancellable ==
  /\ exportStatus.status = "exporting" => "cancel" \in ExportControls(exportStatus)
  /\ reportStatus.status = "generating"
       => "cancel" \in ReportControls(reportStatus, reportData)

\* C7: the list of reports holds at most 5 records, newest first, and a
\* generation that adds a record keeps the records before it in their order,
\* dropping exactly the oldest one when 5 were held and none otherwise.
C7_RecentReportsBounded ==
  [][ /\ Len(recentReports') <= 5
      /\ \A i, j \in DOMAIN recentReports' :
           i < j => recentReports'[i].date >= recentReports'[j].date
      /\ (currentPage' = currentPage /\ recentReports' # recentReports
            => /\ Len(recentReports') >= 1
               /\ Tail(recentReports') =
                    (IF Len(recentReports) = 5
                     THEN SubSeq(recentReports, 1, 4) ELSE recentReports)
               /\ \A i \in DOMAIN recentReports :
                    recentReports'[1].id # recentReports[i].id) ]_vars

C7_Witness ==
  /\ Len(recentReports) = 5
  /\ \A i \in DOMAIN recentReports : recentReports[i].id # 2
  /\ recentReports[5].id = 1

\* C8: a start request with no field selected starts no job: it shows the
\* validation message and leaves the export status, the invocations, the
\* artifact and the configuration as they were; and no job ever starts with
\* an empty field selection.
C8_EmptySelectionRejected ==
  [][ /\ (ClickStartExport /\ ~StartExportDisabled(exportStatus)
            /\ Len(SelectedFields(exportConfig)) = 0
            => /\ alertMsg' # ""
               /\ UNCHANGED <<exportStatus, exportRuns, exportBlob, objectUrls,
                              exportConfig, jobs>>)
      /\ (exportStatus'.status = "exporting" /\ exportStatus.status # "exporting"
            => Len(SelectedFields(exportConfig)) > 0) ]_vars

C8_Witness ==
  /\ alertMsg = "Please select at least one field to export."
  /\ Len(SelectedFields(exportConfig)) = 0
  /\ exportStatus.status = "idle"

\* C9: every value of the table that holds a comma or a newline stands in the
\* text between quotes.
NeedsQuotes(value) ==
  value.type = "string" /\ (Includes(value.v, ",") \/ Includes(value.v, "\n"))

Occurs(part, text) ==
  \E i \in 1..(Len(text) - Len(part) + 1) : SubSeq(text, i, i + Len(part) - 1) = part

SelectionHeader ==
  LET sel == SelectedFields(mockConfig)
  IN Join([i \in DOMAIN sel |-> <<sel[i]>>], ",")

C10_HeaderOfSelectionNames ==
  fileContent # None /\ Len(exportData) > 0
    => /\ Lines(fileContent[1])[1] = SelectionHeader
       /\ Len(Lines(fileContent[1])) = 1 + Len(exportData)

\* The columns each field of the selection stands for.
FieldColumns(field) ==
  CASE field = "timestamp" -> <<"timestamp">>
    [] field = "acPower" -> <<"ac_power">>
    [] field = "acVoltage" -> <<"ac_voltage">>
    [] field = "acCurrent" -> <<"ac_current">>
    [] field = "dcChannels" ->
         <<"dc_power_1", "dc_voltage_1", "dc_current_1",
           "dc_power_2", "dc_voltage_2", "dc_current_2",
           "dc_power_3", "dc_voltage_3", "dc_current_3",
           "dc_power_4", "dc_voltage_4", "dc_current_4">>
    [] field = "temperature" -> <<"temperature">>
    [] field = "yield" -> <<"yield_today", "yield_total">>

RECURSIVE Flatten(_)
Flatten(ss) == IF Len(ss) = 0 THEN <<>> ELSE Head(ss) \o Flatten(Tail(ss))

ColumnHeader ==
  LET sel == SelectedFields(mockConfig)
      cols == Flatten([i \in DOMAIN sel |-> FieldColumns(sel[i])])
  IN Join([i \in DOMAIN cols |-> <<cols[i]>>], ",")

\* C10, amended: the text written for at least one record starts with a line
\* of the columns of the selected fields, in the order timestamp, ac_power,
\* ac_voltage, ac_current, the twelve dc_ columns, temperature, yield_today,
\* yield_total, and has one more line for every record; the text written for
\* no record is empty.
C10_HeaderOfColumns ==
  fileContent # None
    => IF Len(exportData) = 0
       THEN fileContent[1] = <<>>
       ELSE /\ Lines(fileContent[1])[1] = ColumnHeader
            /\ Len(Lines(fileContent[1])) = 1 + Len(exportData)

C10_Witness ==
  /\ fileContent # None
  /\ SelectedFields(mockConfig) = <<"timestamp", "acPower">>
  /\ Len(exportData) = HoursPerDay
  /\ Lines(fileContent[1])[1] = <<"timestamp", ",", "ac_power">>

\* ----------------------------------------------------- reading the files

\* Split a text at the tokens equal to sep.
RECURSIVE Split(_, _)
Split(text, sep) ==
  IF \E i \in DOMAIN text : text[i] = sep
  THEN LET i == CHOOSE j \in DOMAIN text :
                  text[j] = sep /\ \A k \in 1..(j - 1) : text[k] # sep
       IN <<SubSeq(text, 1, i - 1)>> \o Split(SubSeq(text, i + 1, Len(text)), sep)
  ELSE <<text>>

\* JSON.parse of an array of flat objects, reading the tokens from left to
\* right: [ok |-> the text is such an array, rows |-> its objects].
At(t, i) == IF i \in DOMAIN t THEN t[i] ELSE "<end>"

RECURSIVE SkipSpace(_, _)
SkipSpace(t, i) ==
  IF At(t, i) \in {"\n", "  ", " "} THEN SkipSpace(t, i + 1) ELSE i

DigitValue(ch) == (CHOOSE d \in DOMAIN DigitChars : DigitChars[d] = ch) - 1

RECURSIVE ParseDigits(_, _, _)
ParseDigits(t, i, acc) ==
  IF At(t, i) \in Range(DigitChars)
  THEN ParseDigits(t, i + 1, acc * 10 + DigitValue(t[i]))
  ELSE [v |-> acc, next |-> i]

Unescape(ch) == IF ch = "n" THEN "\n" ELSE ch

\* The characters of a string from position i, after its opening quote.
RECURSIVE ParseChars(_, _, _)
ParseChars(t, i, acc) ==
  CASE At(t, i) = "\"" -> [v |-> acc, next |-> i + 1]
    [] At(t, i) = "<end>" -> [v |-> acc, next |-> i]
    [] At(t, i) = "\\" -> ParseChars(t, i + 2, Append(acc, Unescape(At(t, i + 1))))
    [] OTHER -> ParseChars(t, i + 1, Append(acc, t[i]))

ParseValue(t, i) ==
  IF At(t, i) = "\""
  THEN LET r == ParseChars(t, i + 1, <<>>)
       IN [v |-> StringValue(r.v), next |-> r.next, ok |-> TRUE]
  ELSE LET r == ParseDigits(t, i, 0)
       IN [v |-> NumberValue(r.v), next |-> r.next, ok |-> r.next > i]

\* The members of an object from position i, where a key opens.
RECURSIVE ParseMembers(_, _, _)
ParseMembers(t, i, acc) ==
  LET key == ParseChars(t, i + 1, <<>>)
      val == ParseValue(t, SkipSpace(t, key.next + 1))
      k == SkipSpace(t, val.next)
      members == Append(acc, <<key.v[1], val.v>>)
  IN IF At(t, i) # "\"" \/ Len(key.v) # 1 \/ At(t, key.next) # ":" \/ ~val.ok
     THEN [v |-> acc, next |-> i, ok |-> FALSE]
     ELSE IF At(t, k) = "," THEN ParseMembers(t, SkipSpace(t, k + 1), members)
     ELSE [v |-> members, next |-> k + 1, ok |-> At(t, k) = "}"]

ParseObject(t, i) ==
  LET j == SkipSpace(t, i + 1)
  IN IF At(t, i) # "{" THEN [v |-> <<>>, next |-> i, ok |-> FALSE]
     ELSE IF At(t, j) = "}" THEN [v |-> <<>>, next |-> j + 1, ok |-> TRUE]
     ELSE ParseMembers(t, j, <<>>)

RECURSIVE ParseElements(_, _, _)
ParseElements(t, i, acc) ==
  LET obj == ParseObject(t, i)
      k == SkipSpace(t, obj.next)
  IN IF ~obj.ok THEN [ok |-> FALSE, rows |-> <<>>]
     ELSE IF At(t, k) = "," THEN ParseElements(t, SkipSpace(t, k + 1), Append(acc, obj.v))
     ELSE IF At(t, k) = "]" /\ k = Len(t) THEN [ok |-> TRUE, rows |-> Append(acc, obj.v)]
     ELSE [ok |-> FALSE, rows |-> <<>>]

ParseJSON(t) ==
  LET j == SkipSpace(t, 2)
  IN IF At(t, 1) # "[" THEN [ok |-> FALSE, rows |-> <<>>]
     ELSE IF At(t, j) = "]" /\ j = Len(t) THEN [ok |-> TRUE, rows |-> <<>>]
     ELSE ParseElements(t, j, <<>>)

\* The rows a delimited text holds under its header line: each the columns of
\* the header with the text of the row's cells.
CsvRows(text) ==
  LET lines == Lines(text)
      header == Split(lines[1], ",")
  IN [k \in 1..(Len(lines) - 1) |->
        LET cells == Split(lines[k + 1], ",")
        IN [i \in DOMAIN header |->
              <<header[i][1], IF i \in DOMAIN cells THEN cells[i] ELSE <<>> >>]]

\* The rows of a JSON file, each the keys with the text of the values.
JsonRows(text) ==
  LET rows == ParseJSON(text).rows
  IN [k \in DOMAIN rows |->
        [i \in DOMAIN rows[k] |-> <<rows[k][i][1], CellText(rows[k][i][2])>>]]

\* The logical rows of a file of the format.
ArtifactRows(format, text) ==
  IF format = "json" THEN JsonRows(text) ELSE CsvRows(text)

\* The rows of the records: the keys of each with the text of its values.
RecordRows(data) ==
  [k \in DOMAIN data |-> [i \in DOMAIN data[k] |-> <<data[k][i][1], CellText(data[k][i][2])>>]]

\* The time of a sample, in hours, read from the text of its timestamp.
SampleTime(text) ==
  LET t == CHOOSE x \in (0..MaxDays) \X (0..23) : ToISOString(x[1], x[2]) = text
  IN t[1] * 24 + t[2]

\* C11: in every format the rows of the file are the records in their order,
\* row k the k-th record, and the timestamps of the rows ascend.
C11_RowsInSampleOrder ==
  fileContent # None
    => LET rows == ArtifactRows(mockConfig.format, fileContent[1])
       IN /\ rows = RecordRows(exportData)
          /\ mockConfig.includeFields["timestamp"]
               => \A k \in 1..(Len(rows) - 1) :
                    /\ rows[k][1][1] = "timestamp"
                    /\ SampleTime(rows[k][1][2]) < SampleTime(rows[k + 1][1][2])

C11_Witness ==
  /\ fileContent # None
  /\ mockConfig.format = "json"
  /\ mockConfig.includeFields["timestamp"]
  /\ Len(ArtifactRows("json", fileContent[1])) = 2 * HoursPerDay

C13_ExportIdempotent ==
  [][ fileContent # None /\ fileContent' # None /\ mockConfig' = mockConfig
        => fileContent' = fileContent ]_vars

\* C14: parsing the text convertToJSON writes gives the records back: as
\* many, with the same keys and the same values.
C14_JsonRoundTrip ==
  fileContent # None
    => ParseJSON(fileContent[1]) = [ok |-> TRUE, rows |-> exportData]

C14_Witness ==
  /\ fileContent # None
  /\ exportData = << << <<"a", StringValue(<<"\"">>)>>, <<"b", NumberValue(42)>> >>,
                     << <<"a", StringValue(<<"\\", "n">>)>>,
                        <<"b", StringValue(<<"x", "\n", "y">>)>> >> >>

\* C15: an export that completes has the media type and the file extension of
\* the format it was started with and a file name made of the first and the
\* last day of the range it was started with.
C15_ArtifactNamedByFormat ==
  [][ \A r \in exportRuns :
        r \notin exportRuns' /\ exportStatus'.status = "completed"
          => /\ exportBlob' # None
             /\ exportStatus'.fileName # None
             /\ (r.cfg.format = "csv"
                   => /\ exportBlob'[1].type = "text/csv"
                      /\ exportStatus'.fileName[1] =
                           "solar_data_" \o FormatDate(r.cfg.dateRange.from) \o "_to_"
                             \o FormatDate(r.cfg.dateRange.to[1]) \o ".csv")
             /\ (r.cfg.format = "excel"
                   => /\ exportBlob'[1].type =
                           "application/vnd.openxmlformats-officedocument.spreadsheetml.sheet"
                      /\ exportStatus'.fileName[1] =
                           "solar_data_" \o FormatDate(r.cfg.dateRange.from) \o "_to_"
                             \o FormatDate(r.cfg.dateRange.to[1]) \o ".xlsx")
             /\ (r.cfg.format = "json"
                   => /\ exportBlob'[1].type = "application/json"
                      /\ exportStatus'.fileName[1] =
                           "solar_data_" \o FormatDate(r.cfg.dateRange.from) \o "_to_"
                             \o FormatDate(r.cfg.dateRange.to[1]) \o ".json") ]_vars

C15_Witness ==
  /\ exportStatus.status = "completed"
  /\ exportBlob # None
  /\ exportBlob[1].type = "application/json"
  /\ exportStatus.fileName = Some("solar_data_D28_to_D30.json")

\* ------------------------------------------------------------ report data

\* The sum of the productions of the entries of dailyData, in hundredths.
RECURSIVE SumOfEntries(_, _)
SumOfEntries(dailyData, n) ==
  IF n = 0 THEN 0 ELSE SumOfEntries(dailyData, n - 1) + dailyData[n].production

\* The sum of the productions drawn for the days 1..n, in thousandths.
RECURSIVE SumOfDraws(_, _)
SumOfDraws(input, n) ==
  IF n = 0 THEN 0
  ELSE SumOfDraws(input, n - 1)
         + input.random[((n - 1) % Len(input.random)) + 1].production

C18_BestDayFirstOfMaxima ==
  aggregate # None
    => LET data == aggregate[1]
           best == data.summary.bestDay
       IN \E i \in DOMAIN data.dailyData :
            /\ data.dailyData[i].date = best.date
            /\ data.dailyData[i].production = best.production
            /\ \A j \in DOMAIN data.dailyData :
                 /\ data.dailyData[j].production <= best.production
                 /\ (j < i => data.dailyData[j].production < best.production)

C18_Witness ==
  /\ aggregate # None
  /\ aggregate[1].summary.bestDay.date[3] = 2
  /\ \E j \in DOMAIN aggregate[1].dailyData :
       /\ j > 2
       /\ aggregate[1].dailyData[j].production = aggregate[1].summary.bestDay.production

\* C19: the online days are the days of the window that have a sample, which
\* are the days of dailyData; they never exceed the total days; the uptime
\* shown is online days by total days.
C19_OnlineDaysCounted ==
  aggregate # None
    => LET data == aggregate[1]
       IN /\ data.summary.onlineDays = Len(data.dailyData)
          /\ data.summary.onlineDays <= data.summary.totalDays
          /\ UptimePercent(data) = (data.summary.onlineDays * 100) \div data.summary.totalDays

\* ------------------------------------------------------------ savings

\* C20: every savings figure is production x the owner's price x (1 + the
\* owner's tax rate), to the cent.
C20_SavingsByTariff ==
  savings # None
    => savings[1].amount \div 10000
         = (mockProduction * costSettings.electricityPrice * (100 + costSettings.taxRate))
             \div 1000000

\* ------------------------------------------------------ cost calculator

\* C21: a negative price per kWh is never written to the stored settings and
\* never used to compute savings.
C21_NegativePriceRejected ==
  /\ storedPrice # None => storedPrice[1] >= 0
  /\ savings # None => savings[1].amount >= 0

\* C24: a load that reads a saved price p >= 0 leaves exactly p in the form,
\* p = 0 included.
C24_SettingsRoundTrip ==
  (costEvent.kind = "loaded" /\ costEvent.value # None /\ costEvent.value[1] >= 0)
    => costSettings.electricityPrice = costEvent.value[1]

\* C25: a price the user has entered and not yet saved is the form's price,
\* and once no load or calculation is in flight the savings shown are those of
\* the price shown.
C25_EditKept ==
  /\ enteredPrice # None => costSettings.electricityPrice = enteredPrice[1]
  /\ (costRuns = EmptyBag /\ savings # None)
       => savings[1].amount = mockProduction * costSettings.electricityPrice

\* ------------------------------------------------------------ settings

\* C27: a timer clears only the message of the save that set it.
C27_TimerClearsOwnMessage ==
  lastClear # None => lastClear[1].message = lastClear[1].timer

\* ------------------------------------------------------------ data import

\* C23: the rows of an inverter are stored with non-decreasing timestamps.
C23_TimestampsNonDecreasing ==
  \A i, j \in DOMAIN powerData :
    (i < j /\ powerData[i].inverterId = powerData[j].inverterId)
      => powerData[i].timestamp <= powerData[j].timestamp

\* C26: while an import is connecting or importing, the connection test shows
\* success and the configuration is the one that test checked.
C26_ImportAfterTest ==
  importStatus.status \in {"connecting", "importing"}
    => /\ testConnection.status = "success"
       /\ testedConfig = Some(importConfig)

\* ------------------------------------------------------------ dashboard

\* C22: an inverter shown online is shown offline only once three polls in a
\* row have found it offline.
C22_OfflineAfterThreshold ==
  [][\A id \in DOMAIN dashInverters \cap DOMAIN dashInverters' :
       (dashInverters[id] = "online" /\ dashInverters'[id] = "offline")
         => failedPolls'[id] >= 3]_vars

\* ------------------------------------------------------------ inverters

\* C30: an inverter whose delete has succeeded is not in the list.
C30_DeletedStaysAbsent ==
  \A id \in deletedInverters : id \notin InverterIds(inverters)

\* C28: an export that completes reflects the configuration as it was when the
\* export was started: on the step that makes the export status completed, the
\* file name (date range and extension), the media type of the file and its
\* columns are those of the configuration the finishing invocation of
\* handleStartExport was started with, whatever the controls show by then.
C28_ExportOfStartConfig ==
  [][(exportStatus.status = "exporting" /\ exportStatus'.status = "completed")
       => \E r \in exportRuns \ exportRuns' :
            /\ exportStatus'.fileName = Some(ExportFileName(r.cfg))
            /\ exportBlob' # None
            /\ exportBlob'[1].type = MimeType(r.cfg.format)
            /\ exportBlob'[1].records = RecordCount(r.cfg)
            /\ exportBlob'[1].columns =
                 IF RecordCount(r.cfg) = 0 THEN <<>>
                 ELSE Keys(MockRecord(r.cfg, 0, FirstHour, 0))]_vars

\* An export about to complete whose configuration was changed on screen, in
\* format and in fields, after it was started.
C28_Witness ==
  \E r \in exportRuns :
    /\ r.pc + 1 = Len(ExportSteps)
    /\ exportStatus.status = "exporting"
    /\ ~GenerateMockDataThrows(r.cfg)
    /\ r.cfg.format # exportConfig.format
    /\ ExportFileName(r.cfg) # ExportFileName(exportConfig)

\* C29: every object URL made for a completed export is revoked before the
\* export status stops referring to it: on a step of the export page (start,
\* download, reset, a step of a running export) after which the status no
\* longer carries the download URL it carried, that URL is no longer live.
C29_UrlRevokedWhenDropped ==
  [][\A url \in objectUrls :
       (/\ currentPage = "export" /\ currentPage' = "export"
        /\ exportStatus.downloadUrl = Some(url)
        /\ exportStatus'.downloadUrl # Some(url))
         => url \notin objectUrls']_vars

====
